---- MODULE Spec2Model ----
(***************************************************************************)
(* A model of pytooth's Hands-Free Profile control path:                   *)
(*   - SerialPortConnection (hfp/helpers.py): framing, dispatch and        *)
(*     asynchronous reply tracking of AT traffic on an RFCOMM stream;      *)
(*   - RemotePhone (hfp/proxy.py): the handshake coroutine, the public     *)
(*     call-control commands and the events raised to the host.            *)
(* Python values that cross a callback are tagged records [t, v] so that   *)
(* values of different Python types are never compared with each other.    *)
(***************************************************************************)
EXTENDS Integers, Sequences, FiniteSets, TLC

\* Bounds of the model.
MaxFut == 2
MaxRecv == 2
MaxLen == 6
MaxEvents == 4
MaxInd == 3
MaxSocks == 5
MaxBindFailures == 1
MaxSetupErrors == 2
MaxSendBuf == 2
MaxWritten == 4
MaxReports == 2
MaxBytes == 4
MaxClock == 3
MaxStopTimers == 2
BufferWindow == 2
MaxSessions == 2
MaxSessLog == 2
MaxConnects == 2
MaxTransfers == 2
MaxSignals == 2
MaxPending == 3
MaxStops == 2
MaxBitmap == 1023
MaxAppended == 4

VARIABLES
    \* SerialPortConnection
    stream,       \* "open" | "closing" (socket closed, close callback queued) | "closed" (_stream is None)
    reply_q,      \* _reply_q: the keys present in the defaultdict, each with its list of entries
    futures,      \* every Future send_message has returned, by creation order
    timers,       \* the live call_later handles (a handle is named by its future's index)
    expired,      \* the handles whose deadline has passed, i.e. whose callback has run
    indmap,       \* _indmap: unset until the first +CIND capability reply
    remainder,    \* _remainder
    nrecv,        \* number of messages dispatched so far
    sent,         \* what has been written to the stream, in order
    on_close_calls,  \* number of times the on_close callback has been invoked
    last,         \* what the most recent handler did (its callbacks, the exception that left it)
    \* RemotePhone
    started, handshake_completed, ag_features, ag_multicall, codec, csm,
    connection,   \* whether RemotePhone._connection is not None
    hs,           \* the _do_handshake coroutine: where it is suspended and how it ended
    connected_events,  \* the on_connected_changed calls, in order
    \* the byte stream fed to _data_ready
    input, pos, dispatched,
    split_delim,  \* whether some read so far ended between a CR and its LF
    \* the call state machine fed on its own
    csm_log,      \* the events fed to transition, each with the state before and after
    \* MediaManager (one adapter) and the HandsFreeProfile callbacks wired to it
    connections,  \* _connections[adapter]: NoConn when the adapter is not tracked
    socks,        \* every SCO socket created so far, by creation order
    io_handlers,  \* the sockets whose fd has a handler registered on the IOLoop
    close_checks, \* number of _sco_close_check callbacks pending on the IOLoop
    start_retries,  \* number of pending call_later(10, MediaManager.start) timers
    bind_failures,  \* number of failed binds so far
    peer_closed,  \* the accepted sockets the peer has hung up
    media_events, \* the on_audio_connected_changed calls, in order
    setup_errors, \* number of on_audio_setup_error calls
    m_last,       \* what the most recent MediaManager handler did
    \* RealTimeSocketPump
    pump_started, \* _started
    pump_stop,    \* the latest stop() call: "none" | "joining" (blocked in join) | "returned"
    send_buffer,  \* _send_buffer: the queued bytes, each named by its number in the order written
    pump_written, \* number of bytes write() has queued so far
    pump_wire,    \* the bytes socket.send has accepted, in order
    p_last,       \* what the most recent pump operation or worker step did
    worker,       \* the worker thread: its position in _worker_proc and its locals
    pump_reports, \* number of on_fatal_error callbacks queued on the IOLoop
    touched_after_error,  \* whether the worker has used the socket after an error
    \* PortAudioSink
    sink,         \* _started, _buffering, _buffer_end, _buffer (its length) and the _stream
    sink_timers,  \* number of pending add_timeout(250 ms, _stop_portaudio_callback)
    sink_cb,      \* "closing" while _stop_portaudio_callback is between its clear and its close
    clock,        \* datetime.now(), in ticks
    s_last,       \* what the most recent sink operation did
    \* ProfileManager and the sessions (SerialPortConnection with its RemotePhone)
    sessions,     \* every session constructed so far, by creation order
    profile_connects,  \* number of NewConnection calls the profile has received
    connect_errors,    \* number of those that ended in the except branch
    profile_events,    \* the on_connected_changed calls of the ProfileManager, in order
    \* PhonebookClient and the Obex transfers of its session
    pb_transfer,  \* _transfer: the path of the tracked transfer, 0 for None
    pb_file,      \* _transfer_file: the temporary file of the tracked transfer, 0 for None
    obex_transfers,  \* every transfer PullAll has started: its status and what was reported
    obex_signals, \* the PropertiesChanged signals not yet delivered, in order
    pb_last,      \* what the most recent PhonebookClient operation did
    \* BaseAdapter, the IOLoop entries it scheduled and the adapters of the host
    adapter,      \* _started, _connected, _address, _path, _last_address, _last_path
    ad_sub,       \* the adapter _props_changed_subscription listens to, 0 for None
    ad_leaked,    \* adapters with a subscription that was replaced without disconnect()
    ad_pending,   \* the scheduled _find_suitable_adapter calls: each the number of stop() calls before it
    ad_stops,     \* number of stop() calls that stopped the adapter
    hw_powered,   \* Powered of each adapter of the host
    ad_last,      \* what the most recent BaseAdapter operation did
    \* The feature decoder applied to a bitmap
    brsf_in,      \* the bitmap of the most recent +BRSF reply, -1 before the first
    brsf_out,     \* what _handle_brsf returned for it
    \* ThreadSafeMemoryBuffer with one producer thread and one consumer thread
    tb_buffer,    \* _buffer: the bytes, each named by its number in the order appended
    tb_lock,      \* the holder of _lock: "none" | "producer" | "consumer"
    tb_prod,      \* the producer: its position in append and its locals
    tb_cons,      \* the consumer: its position in length / get and its locals
    tb_appended,  \* number of bytes append has stored so far
    tb_got        \* the bytes get has taken out of the buffer, in order

chanVars == <<stream, reply_q, futures, timers, expired, indmap, nrecv, sent,
              on_close_calls, last>>
phoneVars == <<started, handshake_completed, ag_features, ag_multicall, codec,
               csm, connection, hs, connected_events>>
readVars == <<input, pos, dispatched, split_delim, remainder>>
csmVars == <<csm_log>>
mediaVars == <<connections, socks, io_handlers, close_checks, start_retries, bind_failures,
               peer_closed, media_events, setup_errors, m_last>>
pumpVars == <<pump_started, pump_stop, send_buffer, worker, pump_reports, touched_after_error,
              pump_written, pump_wire, p_last>>
sinkVars == <<sink, sink_timers, sink_cb, clock, s_last>>
sessVars == <<sessions, profile_connects, connect_errors, profile_events>>
pbVars == <<pb_transfer, pb_file, obex_transfers, obex_signals, pb_last>>
adVars == <<adapter, ad_sub, ad_leaked, ad_pending, ad_stops, hw_powered, ad_last>>
decVars == <<brsf_in, brsf_out>>
bufVars == <<tb_buffer, tb_lock, tb_prod, tb_cons, tb_appended, tb_got>>
moreVars == <<decVars, bufVars>>
lateVars == <<pbVars, adVars, moreVars>>
auxVars == <<csmVars, mediaVars, pumpVars, sinkVars, sessVars, lateVars>>
coreVars == <<chanVars, phoneVars, readVars>>
vars == <<chanVars, phoneVars, readVars, auxVars>>

(***************************************************************************)
(* Python values                                                           *)
(***************************************************************************)
PyNone == [t |-> "None"]
PyStr(s) == [t |-> "str", v |-> s]
PyInt(n) == [t |-> "int", v |-> n]
PyBool(b) == [t |-> "bool", v |-> b]
PyList(s) == [t |-> "list", v |-> s]
PyDict(f) == [t |-> "dict", v |-> f]

\* The result of a call: a returned value, or the exception that left it.
Return(x) == [raised |-> "none", ret |-> x]
Raise(e) == [raised |-> e, ret |-> PyNone]

\* int(s) for the decimal strings the model uses; any other string raises ValueError.
IntOf == ("0" :> 0) @@ ("1" :> 1) @@ ("2" :> 2) @@ ("3" :> 3) @@ ("9" :> 9)
         @@ ("30" :> 30) @@ ("32" :> 32) @@ ("33" :> 33)
IsInt(s) == s \in DOMAIN IntOf

Bit(n, mask) == (n \div mask) % 2 = 1

EmptyMap == [x \in {} |-> x]

(***************************************************************************)
(* SerialPortConnection: the decoders                                      *)
(***************************************************************************)
CHLD_MAP == (0 :> "ReleaseAllHeldOrUDUB") @@ (1 :> "ReleaseAllActive,AcceptOther")
            @@ (2 :> "HoldAllActive,AcceptOther") @@ (3 :> "AddCallToConference")
            @@ (4 :> "JoinCalls,HangUp")

\* The dict _handle_brsf builds from the integer p.
brsf_features(p) ==
    PyDict(("3WAY" :> Bit(p, 1)) @@ ("NREC" :> Bit(p, 2))
           @@ ("VOICE_RECOGNITION" :> Bit(p, 4)) @@ ("INBAND" :> Bit(p, 8))
           @@ ("PHONE_VTAG" :> Bit(p, 16)) @@ ("WIDE_BAND" :> Bit(p, 32)))

handle_brsf(params) ==
    IF ~IsInt(params[1]) THEN Raise("ValueError")
    ELSE Return(brsf_features(IntOf[params[1]]))

handle_chld(params) ==
    IF \E i \in DOMAIN params : ~IsInt(params[i]) THEN Raise("SyntaxError")
    ELSE Return(PyList([i \in DOMAIN params |->
             IF IntOf[params[i]] \in DOMAIN CHLD_MAP
             THEN PyStr(CHLD_MAP[IntOf[params[i]]])
             ELSE PyInt(IntOf[params[i]])]))

\* _indmap is a dict keyed 0..n-1; here the sequence of its values, key k at k+1.
IndmapUnset == [set |-> FALSE, names |-> <<>>]
IndmapOf(names) == [set |-> TRUE, names |-> names]
IndmapHas(im, k) == k >= 0 /\ k < Len(im.names)

handle_ciev(params, im) ==
    IF ~im.set THEN Raise("AttributeError")
    ELSE IF ~IsInt(params[1]) THEN Raise("ValueError")
    ELSE IF ~IndmapHas(im, IntOf[params[1]] - 1) THEN Raise("KeyError")
    ELSE IF Len(params) < 2 THEN Return(PyNone)
    ELSE Return(PyDict(("name" :> im.names[IntOf[params[1]]]) @@ ("value" :> params[2])))

\* The capability form carries parentheses; its params are the indicator names in order.
\* ast.literal_eval of a single ("name",(range)) is that pair itself, not a tuple of
\* pairs: the loop then unpacks the name string into (name, _) and raises ValueError
\* before _indmap is assigned.
handle_cind(paren, params, im) ==
    IF paren THEN (IF Len(params) = 1 THEN Raise("ValueError") ELSE Return(PyList(params)))
    ELSE IF ~im.set THEN Raise("AttributeError")
    ELSE IF \E i \in DOMAIN params : ~IndmapHas(im, i - 1) THEN Raise("KeyError")
    ELSE Return(PyDict([n \in {im.names[i] : i \in DOMAIN params} |->
             params[CHOOSE i \in DOMAIN params :
                        /\ im.names[i] = n
                        /\ \A j \in DOMAIN params : im.names[j] = n => j <= i]]))

handle_cind_indmap(paren, params, im) ==
    IF paren THEN IndmapOf(params) ELSE im

\* CME_ERROR_MAP has int keys; params is the str after the colon, and no str equals an int.
CME_ERROR_MAP == (0 :> "AG failure") @@ (30 :> "No network service")
                 @@ (32 :> "Emergency calls only")
handle_cme(params) ==
    IF PyStr(params[1]) \in {PyInt(k) : k \in DOMAIN CME_ERROR_MAP}
    THEN PyStr(CME_ERROR_MAP[IntOf[params[1]]])
    ELSE PyStr(params[1])

\* The codes for which getattr(self, "_handle_<code>") finds a method.
Handlers == {"BRSF", "CHLD", "CIEV", "CIND", "CME"}

handler(code, paren, params, im) ==
    CASE code = "BRSF" -> handle_brsf(params)
      [] code = "CHLD" -> handle_chld(params)
      [] code = "CIEV" -> handle_ciev(params, im)
      [] code = "CIND" -> handle_cind(paren, params, im)
      [] OTHER -> Return(handle_cme(params))

(***************************************************************************)
(* SerialPortConnection: reply tracking and dispatch                       *)
(***************************************************************************)
NoEntry == [future |-> 0, handle |-> 0]

\* defaultdict(list): reading a missing key yields [] and creates the key.
QGet(q, c) == IF c \in DOMAIN q THEN q[c] ELSE <<>>
QTouch(q, c) == IF c \in DOMAIN q THEN q ELSE q @@ (c :> <<>>)

\* self._reply_q[code].pop(): list.pop() removes and returns the last element;
\* on an empty list it raises IndexError (entry = NoEntry).
QPop(q, c) ==
    LET l == QGet(q, c) IN
    IF l = <<>> THEN [q |-> QTouch(q, c), entry |-> NoEntry]
    ELSE [q |-> [QTouch(q, c) EXCEPT ![c] = SubSeq(l, 1, Len(l) - 1)],
          entry |-> l[Len(l)]]

\* queue.append(entry)
QAppend(q, c, e) == [QTouch(q, c) EXCEPT ![c] = Append(QGet(q, c), e)]

Callback(cb, code, data) == [cb |-> cb, code |-> code, data |-> data]

\* A reply that found no queued entry goes to the on_message callback.
DeliverAlways(entry, code, data) == <<Callback("on_message", code, data)>>
Deliver(entry, code, data) ==
    IF entry # NoEntry THEN <<>> ELSE <<Callback("on_message", code, data)>>

\* What one call of _on_message does: the queue and indicator map after it, the entry
\* it popped (whose timer it cancels), how it settles that entry's future, the
\* callbacks it makes and the exception that leaves it.
Outcome(q, im, entry, settle, value, callbacks, raised) ==
    [q |-> q, im |-> im, entry |-> entry, settle |-> settle, value |-> value,
     callbacks |-> callbacks, raised |-> raised]

on_message(msg, q, im) ==
    IF msg.kind = "ERROR"
    THEN Outcome(q, im, NoEntry, "none", PyNone,
                 <<Callback("on_error", "", PyNone)>>, "none")
    ELSE IF msg.kind = "OK"
    THEN LET p == QPop(q, "OK") IN
         Outcome(p.q, im, p.entry, IF p.entry # NoEntry THEN "result" ELSE "none",
                 IF p.entry # NoEntry THEN PyStr("OK") ELSE PyNone,
                 Deliver(p.entry, "OK", PyNone), "none")
    ELSE IF ~msg.colon
    THEN Outcome(q, im, NoEntry, "none", PyNone, <<>>, "ValueError")
    ELSE IF msg.code = "CME"
    THEN Outcome(q, im, NoEntry, "none", PyNone,
                 <<Callback("on_error", "", handle_cme(msg.params))>>, "none")
    ELSE IF msg.code \notin Handlers
    THEN Outcome(q, im, NoEntry, "none", PyNone, <<>>, "none")
    ELSE LET p == QPop(q, msg.code)
             r == handler(msg.code, msg.paren, msg.params, im)
             im2 == IF msg.code = "CIND" /\ r.raised = "none"
                    THEN handle_cind_indmap(msg.paren, msg.params, im) ELSE im
         IN
         IF r.raised # "none"
         THEN Outcome(p.q, im, p.entry,
                      IF p.entry # NoEntry THEN "exception" ELSE "none",
                      PyStr(r.raised), <<>>, r.raised)
         ELSE Outcome(p.q, im2, p.entry, IF p.entry # NoEntry THEN "result" ELSE "none",
                      IF p.entry # NoEntry THEN r.ret ELSE PyNone,
                      Deliver(p.entry, msg.code, r.ret), "none")

\* Future.set_result / Future.set_exception on the future of a popped entry.
Settle(futs, entry, settle, value) ==
    IF entry = NoEntry \/ settle = "none" THEN futs
    ELSE [futs EXCEPT ![entry.future] =
             [@ EXCEPT !.state = settle, !.value = value,
                       !.settled = @ + 1]]

\* A variant of send_message that sets up the future, its timer and its queue
\* entry before it writes.
send_message_tracks_first(message, async_reply_code) ==
    LET id == Len(futures) + 1
        tracked == async_reply_code # "None"
        futs == IF tracked
                THEN Append(futures, [code |-> async_reply_code, state |-> "pending",
                                      value |-> PyNone, settled |-> 0])
                ELSE futures
        tms == IF tracked THEN timers \cup {id} ELSE timers
        q == IF tracked
             THEN QAppend(reply_q, async_reply_code, [future |-> id, handle |-> id])
             ELSE reply_q
    IN  [raised |-> IF stream # "open" THEN "ConnectionError" ELSE "none",
         sent |-> IF stream # "open" THEN sent ELSE Append(sent, message),
         futures |-> futs, timers |-> tms, q |-> q,
         fut |-> IF tracked /\ stream = "open" THEN id ELSE 0]

\* send_message: the write, then the future, its timer and its queue entry.
send_message(message, async_reply_code) ==
    IF stream # "open"
    THEN [raised |-> "ConnectionError", sent |-> sent, futures |-> futures,
          timers |-> timers, q |-> reply_q, fut |-> 0]
    ELSE IF async_reply_code = "None"
    THEN [raised |-> "none", sent |-> Append(sent, message), futures |-> futures,
          timers |-> timers, q |-> reply_q, fut |-> 0]
    ELSE LET id == Len(futures) + 1 IN
         [raised |-> "none", sent |-> Append(sent, message),
          futures |-> Append(futures, [code |-> async_reply_code, state |-> "pending",
                                       value |-> PyNone, settled |-> 0]),
          timers |-> timers \cup {id},
          q |-> QAppend(reply_q, async_reply_code, [future |-> id, handle |-> id]),
          fut |-> id]

\* _async_timeout(code): pops an entry of the code's list and fails its future.
async_timeout(code, q, futs) ==
    LET p == QPop(q, code) IN
    IF p.entry = NoEntry
    THEN [raised |-> "IndexError", q |-> p.q, futures |-> futs]
    ELSE [raised |-> "none", q |-> p.q,
          futures |-> Settle(futs, p.entry, "exception", PyStr("TimeoutError"))]

\* _on_close: the loop runs over the dict's values, which are lists, and indexes each
\* with "future": a TypeError on the first value, before anything is failed or cleared.
on_close(q, futs) ==
    IF DOMAIN q # {}
    THEN [raised |-> "TypeError", q |-> q, futures |-> futs, on_close |-> FALSE]
    ELSE [raised |-> "none", q |-> EmptyMap, futures |-> futs, on_close |-> TRUE]

\* close(): self._stream.close()
close_stream ==
    IF stream = "closed" THEN [raised |-> "AttributeError", stream |-> stream]
    ELSE [raised |-> "none", stream |-> "closing"]

(***************************************************************************)
(* What the last handler did                                               *)
(***************************************************************************)
\* The state a handler found: the queue of the code it is about, the call state, how
\* much had been written, and whether the phone was Ready.
Snapshot(code) ==
    [q |-> QGet(reply_q, code), csm |-> csm, nsent |-> Len(sent),
     ready |-> (started /\ handshake_completed /\ stream = "open")]

Last(op, arg, raised, callbacks, settled, before, events) ==
    [op |-> op, arg |-> arg, raised |-> raised, callbacks |-> callbacks,
     settled |-> settled, before |-> before, events |-> events]

NoMsg == [kind |-> "none", colon |-> FALSE, code |-> "", paren |-> FALSE, params |-> <<>>]
Text(kind) == [kind |-> kind, colon |-> FALSE, code |-> "", paren |-> FALSE, params |-> <<>>]
Coded(code, paren, params) ==
    [kind |-> "text", colon |-> TRUE, code |-> code, paren |-> paren, params |-> params]

\* The futures a step settled.
SettledBy(old, new) ==
    {f \in DOMAIN old : old[f].state = "pending" /\ new[f].state # "pending"}

Min(S) == CHOOSE x \in S : \A y \in S : x <= y

(***************************************************************************)
(* The channel on its own: a client that sends and awaits, the AG that     *)
(* replies, the event loop that runs timers and the close callback.  The   *)
(* callbacks on_message / on_error / on_close are recorded in last.        *)
(***************************************************************************)
AwaitCodes == {"OK", "BRSF", "CIEV"}

AGMessages ==
    { Text("OK"), Text("ERROR"), Text("RING"),
      Coded("BRSF", FALSE, <<"33">>), Coded("BRSF", FALSE, <<"x">>),
      Coded("CIND", TRUE, <<"call", "battchg">>),
      Coded("CIND", FALSE, <<"0", "3">>),
      Coded("CIEV", FALSE, <<"1", "1">>), Coded("CIEV", FALSE, <<"2", "3">>),
      Coded("CIEV", FALSE, <<"9", "1">>),
      Coded("CME", FALSE, <<"30">>), Coded("COPS", FALSE, <<"0">>) }

PhoneIdle ==
    /\ started = FALSE /\ handshake_completed = FALSE
    /\ ag_features = PyNone /\ ag_multicall = PyNone /\ codec = PyNone
    /\ csm = "None" /\ connection = TRUE
    /\ hs = [pc |-> "idle", step |-> 0, fut |-> 0, error |-> "none", timed_out |-> FALSE]
    /\ connected_events = <<>>

ReadIdle == input = <<>> /\ pos = 0 /\ dispatched = <<>> /\ split_delim = FALSE

CsmIdle == csm_log = <<>>

\* MediaManager.__init__: no adapter tracked, nothing on the IOLoop.
NoConn == [status |-> "idle", socket |-> 0, epoll |-> FALSE]
MediaFresh ==
    [conn |-> NoConn, socks |-> <<>>, handlers |-> {}, checks |-> 0, retries |-> 0,
     fails |-> 0, events |-> <<>>, errors |-> 0]
MediaIdle ==
    /\ connections = NoConn /\ socks = <<>> /\ io_handlers = {} /\ close_checks = 0
    /\ start_retries = 0 /\ bind_failures = 0 /\ peer_closed = {} /\ media_events = <<>>
    /\ setup_errors = 0
    /\ m_last = [op |-> "init", arg |-> "", raised |-> "none", before |-> MediaFresh,
                 at_event |-> MediaFresh]

\* RealTimeSocketPump.__init__: not started, no worker thread.
NoWorker == [pc |-> "none", fatal |-> FALSE, can_read |-> FALSE, can_write |-> FALSE]
PumpIdle ==
    /\ pump_started = FALSE /\ pump_stop = "none" /\ send_buffer = <<>>
    /\ pump_written = 0 /\ pump_wire = <<>>
    /\ p_last = [op |-> "init", arg |-> "", raised |-> "none", chunk |-> <<>>,
                 before |-> [started |-> FALSE, buffer |-> <<>>, wire |-> <<>>,
                             reports |-> 0, fatal |-> FALSE, can_write |-> FALSE]]
    /\ worker = NoWorker /\ pump_reports = 0 /\ touched_after_error = FALSE

\* PortAudioSink.__init__: not started, no buffer, no stream.  None is -1.
NoSink == [started |-> FALSE, buffering |-> FALSE, buffer_end |-> -1, buffer |-> -1,
           stream |-> "none"]
SinkIdle ==
    /\ sink = NoSink /\ sink_timers = 0 /\ sink_cb = "none" /\ clock = 0
    /\ s_last = [op |-> "init", frames |-> 0, out |-> "none", nbytes |-> 0, flag |-> "none",
                 raised |-> "none", before |-> NoSink, now |-> 0]

\* ProfileManager before any connection.
SessIdle ==
    /\ sessions = <<>> /\ profile_connects = 0 /\ connect_errors = 0
    /\ profile_events = <<>>

\* PhonebookClient.__init__: no transfer tracked.
PbFresh == [transfer |-> 0, file |-> 0, ntransfers |-> 0]
PbIdle ==
    /\ pb_transfer = 0 /\ pb_file = 0 /\ obex_transfers = <<>> /\ obex_signals = <<>>
    /\ pb_last = [op |-> "init", path |-> 0, status |-> "", called |-> "none",
                  raised |-> "none", callbacks |-> <<>>, before |-> PbFresh]

Adapters == {1, 2}
AdFresh == [started |-> FALSE, connected |-> FALSE, address |-> "None", path |-> "None",
            last_address |-> "None", last_path |-> "None"]
AdIdle ==
    /\ adapter = AdFresh /\ ad_sub = 0 /\ ad_leaked = {} /\ ad_pending = <<>> /\ ad_stops = 0
    /\ hw_powered = [a \in Adapters |-> FALSE]
    /\ ad_last = [op |-> "init", before |-> AdFresh, scheduled |-> 0, stale |-> FALSE,
                  found |-> 0, raised |-> "none"]
DecIdle == brsf_in = -1 /\ brsf_out = PyNone
BufIdle ==
    /\ tb_buffer = <<>> /\ tb_lock = "none" /\ tb_appended = 0 /\ tb_got = <<>>
    /\ tb_prod = [pc |-> "idle", data |-> <<>>, tmp |-> <<>>]
    /\ tb_cons = [pc |-> "idle", seen |-> 0, n |-> 0, data |-> <<>>]
MoreIdle == DecIdle /\ BufIdle
LateIdle == PbIdle /\ AdIdle /\ MoreIdle

AuxIdle == CsmIdle /\ MediaIdle /\ PumpIdle /\ SinkIdle /\ SessIdle /\ LateIdle

ChanInit ==
    /\ stream = "open" /\ reply_q = EmptyMap /\ futures = <<>> /\ timers = {}
    /\ expired = {} /\ indmap = IndmapUnset /\ remainder = <<>> /\ nrecv = 0
    /\ sent = <<>> /\ on_close_calls = 0
    /\ last = Last("init", NoMsg, "none", <<>>, {},
                [q |-> <<>>, csm |-> "None", nsent |-> 0, ready |-> FALSE], <<>>)

\* The client calls send_message(message, async_reply_code).
ClientSend(code) ==
    /\ Len(sent) < MaxFut
    /\ LET r == send_message("AT", code) IN
       /\ sent' = r.sent /\ futures' = r.futures /\ timers' = r.timers
       /\ reply_q' = r.q
       /\ last' = Last("send", Text(code), r.raised, <<>>, {}, Snapshot(code), <<>>)
    /\ UNCHANGED <<stream, expired, indmap, nrecv, on_close_calls, remainder>>
    /\ UNCHANGED <<phoneVars, input, pos, dispatched, split_delim, auxVars>>

\* _data_ready hands one framed message to _on_message; it logs and swallows
\* whatever exception leaves it.
ChanReceive(msg) ==
    /\ stream = "open" /\ nrecv < MaxRecv
    /\ LET o == on_message(msg, reply_q, indmap) IN
       /\ reply_q' = o.q /\ indmap' = o.im
       /\ timers' = timers \ {o.entry.handle}
       /\ futures' = Settle(futures, o.entry, o.settle, o.value)
       /\ last' = Last("recv", msg, o.raised, o.callbacks,
                       SettledBy(futures, futures'),
                       Snapshot(IF msg.kind = "OK" THEN "OK" ELSE msg.code), <<>>)
    /\ nrecv' = nrecv + 1
    /\ UNCHANGED <<stream, expired, sent, on_close_calls, remainder>>
    /\ UNCHANGED <<phoneVars, input, pos, dispatched, split_delim, auxVars>>

\* The event loop runs the earliest live timer: all delays are equal, so deadlines
\* fall in the order the sends were made.
TimerFire ==
    /\ timers # {}
    /\ LET h == Min(timers)
           r == async_timeout(futures[h].code, reply_q, futures) IN
       /\ timers' = timers \ {h} /\ expired' = expired \cup {h}
       /\ reply_q' = r.q /\ futures' = r.futures
       /\ last' = Last("timeout", Text(futures[h].code), r.raised, <<>>,
                       SettledBy(futures, futures'), Snapshot(futures[h].code), <<>>)
    /\ UNCHANGED <<stream, indmap, nrecv, sent, on_close_calls, remainder>>
    /\ UNCHANGED <<phoneVars, input, pos, dispatched, split_delim, auxVars>>

\* The peer closes the link: the stream notices and queues its close callback.
PeerClose ==
    /\ stream = "open"
    /\ stream' = "closing"
    /\ last' = Last("peer_close", NoMsg, "none", <<>>, {}, Snapshot(""), <<>>)
    /\ UNCHANGED <<reply_q, futures, timers, expired, indmap, nrecv, sent,
                   on_close_calls, remainder>>
    /\ UNCHANGED <<phoneVars, input, pos, dispatched, split_delim, auxVars>>

\* The client calls close().
ClientClose ==
    /\ LET r == close_stream IN
       /\ stream' = r.stream
       /\ last' = Last("close", NoMsg, r.raised, <<>>, {}, Snapshot(""), <<>>)
    /\ UNCHANGED <<reply_q, futures, timers, expired, indmap, nrecv, sent,
                   on_close_calls, remainder>>
    /\ UNCHANGED <<phoneVars, input, pos, dispatched, split_delim, auxVars>>

\* The event loop runs the stream's close callback, _on_close.
ChanOnClose ==
    /\ stream = "closing"
    /\ LET r == on_close(reply_q, futures) IN
       /\ stream' = "closed" /\ remainder' = <<>>
       /\ reply_q' = r.q /\ futures' = r.futures
       /\ on_close_calls' = on_close_calls + (IF r.on_close THEN 1 ELSE 0)
       /\ last' = Last("on_close", NoMsg, r.raised,
                       IF r.on_close THEN <<Callback("on_close", "", PyNone)>> ELSE <<>>,
                       SettledBy(futures, futures'), Snapshot(""), <<>>)
    /\ UNCHANGED <<timers, expired, indmap, nrecv, sent>>
    /\ UNCHANGED <<phoneVars, input, pos, dispatched, split_delim, auxVars>>

ChanNext ==
    \/ \E code \in AwaitCodes \cup {"None"} : ClientSend(code)
    \/ \E msg \in AGMessages : ChanReceive(msg)
    \/ TimerFire
    \/ PeerClose
    \/ ClientClose
    \/ ChanOnClose

InitChannel == ChanInit /\ PhoneIdle /\ ReadIdle /\ AuxIdle

SpecChannel == InitChannel /\ [][ChanNext]_vars

(***************************************************************************)
(* CallStateMachine.  pytooth.hfp.helpers does not define the class that   *)
(* proxy.py imports from it, so the transition is taken from the written   *)
(* description: a function of (state, code, data) driven by the "call"     *)
(* and "callsetup" indicator fields, returning whether the state changed.  *)
(***************************************************************************)
\* The indicator fields a message carries: one for a +CIEV update, all for +CIND values.
CsmFields(code, data) ==
    IF data.t # "dict" THEN EmptyMap
    ELSE IF code = "CIEV" THEN (data.v["name"] :> data.v["value"])
    ELSE IF code = "CIND" THEN data.v
    ELSE EmptyMap

CsmNextKeepsCall(state, f) ==
    IF "callsetup" \in DOMAIN f /\ f["callsetup"] = "3" THEN "ringing"
    ELSE IF "call" \in DOMAIN f /\ f["call"] = "1" THEN "active"
    ELSE state
CsmNext(state, f) ==
    IF "callsetup" \in DOMAIN f /\ f["callsetup"] = "3" THEN "ringing"
    ELSE IF "callsetup" \in DOMAIN f /\ f["callsetup"] = "2" THEN "alerting"
    ELSE IF "callsetup" \in DOMAIN f /\ f["callsetup"] = "1" THEN "dialing"
    ELSE IF "call" \in DOMAIN f
    THEN (IF f["call"] = "1" THEN "active" ELSE "idle")
    ELSE state

transition(state, code, data) ==
    LET new == CsmNext(state, CsmFields(code, data)) IN
    [state |-> new, changed |-> new # state]

(***************************************************************************)
(* RemotePhone                                                             *)
(***************************************************************************)
Event(name, value) == [name |-> name, value |-> value]

\* dict[key]
DictGet(d, k) == IF k \in DOMAIN d.v THEN Return(PyBool(d.v[k])) ELSE Raise("KeyError")

\* The indicator events of _connection_message: membership is tested on the keys of
\* data, in the order battchg, roam, service, signal.  int() of a value that is no
\* number leaves the handler with ValueError, after the events raised before it.
IsIndicatorDict(code, data) == code \in {"CIEV", "CIND"} /\ data.t = "dict"
BadInt(data, k) == k \in DOMAIN data.v /\ ~IsInt(data.v[k])
IndicatorBad(code, data) ==
    IsIndicatorDict(code, data) /\ (BadInt(data, "battchg") \/ BadInt(data, "signal"))
IndicatorEvents(code, data) ==
    IF ~IsIndicatorDict(code, data) \/ BadInt(data, "battchg") THEN <<>>
    ELSE (IF "battchg" \in DOMAIN data.v
          THEN <<Event("battery", PyInt(IntOf[data.v["battchg"]]))>> ELSE <<>>)
      \o (IF "roam" \in DOMAIN data.v
          THEN <<Event("roaming", PyBool(data.v["roam"] = "1"))>> ELSE <<>>)
      \o (IF "service" \in DOMAIN data.v
          THEN <<Event("service", PyBool(data.v["service"] = "1"))>> ELSE <<>>)
      \o (IF "signal" \in DOMAIN data.v /\ ~BadInt(data, "signal")
          THEN <<Event("signal", PyInt(IntOf[data.v["signal"]]))>> ELSE <<>>)

CarrierEvents(code, data) ==
    IF code = "COPS" THEN <<Event("carrier", PyStr(data.v["name"]))>> ELSE <<>>

\* if transitioned: self._raise_event(name="calls", state=self._csm.state)
CallsEventAlways(transitioned, state) == <<Event("calls", PyStr(state))>>
CallsEvent(transitioned, state) ==
    IF transitioned THEN <<Event("calls", PyStr(state))>> ELSE <<>>

\* _connection_message(code, data) with the call state machine in state cs
\* ("None" while _csm is None).
connection_message(code, data, cs) ==
    IF IndicatorBad(code, data)
    THEN [raised |-> "ValueError", events |-> IndicatorEvents(code, data), csm |-> cs]
    ELSE IF cs = "None"
    THEN [raised |-> "AttributeError",
          events |-> IndicatorEvents(code, data) \o CarrierEvents(code, data), csm |-> cs]
    ELSE LET t == transition(cs, code, data) IN
         [raised |-> "none",
          events |-> IndicatorEvents(code, data) \o CarrierEvents(code, data)
                     \o CallsEvent(t.changed, t.state),
          csm |-> t.state]

\* _connection_error(error)
connection_error(error) == <<Event("error", error)>>

\* The callbacks a channel handler made, run against the phone in order.
RECURSIVE RunCallbacks(_, _)
RunCallbacks(cbs, cs) ==
    IF cbs = <<>> THEN [raised |-> "none", events |-> <<>>, csm |-> cs]
    ELSE LET cb == Head(cbs)
             r == IF cb.cb = "on_error"
                  THEN [raised |-> "none", events |-> connection_error(cb.data), csm |-> cs]
                  ELSE connection_message(cb.code, cb.data, cs)
             rest == RunCallbacks(Tail(cbs), r.csm)
         IN IF r.raised # "none" THEN r
            ELSE [raised |-> rest.raised, events |-> r.events \o rest.events,
                  csm |-> rest.csm]

\* The awaited steps of _do_handshake, in program order.
Steps ==
    << [cmd |-> "AT+BRSF=518", code |-> "BRSF"],
       [cmd |-> "AT+BAC=1", code |-> "OK"],
       [cmd |-> "AT+CIND=?", code |-> "CIND"],
       [cmd |-> "AT+CIND?", code |-> "CIND"],
       [cmd |-> "AT+CMER=3,0,0,1", code |-> "OK"],
       [cmd |-> "AT+CHLD=?", code |-> "CHLD"],
       [cmd |-> "AT+CCWA=1", code |-> "OK"],
       [cmd |-> "AT+CMEE=1", code |-> "OK"],
       [cmd |-> "AT+CLIP=1", code |-> "OK"],
       [cmd |-> "AT+COPS=3,0", code |-> "OK"] >>

\* The step that follows step i once its reply is in, given the AG features: the two
\* branches read self._ag_features["CODEC_NEG"] and self._ag_features["3WAY"].
\* Len(Steps) + 1 stands for the end of the try block.
NextStep(i, feats) ==
    IF i = 1
    THEN LET c == DictGet(feats, "CODEC_NEG") IN
         IF c.raised # "none" THEN [raised |-> c.raised, step |-> i]
         ELSE [raised |-> "none", step |-> IF c.ret.v THEN 2 ELSE 3]
    ELSE IF i = 5
    THEN LET c == DictGet(feats, "3WAY") IN
         IF c.raised # "none" THEN [raised |-> c.raised, step |-> i]
         ELSE [raised |-> "none", step |-> IF c.ret.v THEN 6 ELSE 8]
    ELSE [raised |-> "none", step |-> i + 1]

\* except TimeoutError: if self._connection: self._connection.close()
handshake_abort_noclose == [raised |-> "none", stream |-> stream]
handshake_abort ==
    IF connection THEN close_stream ELSE [raised |-> "none", stream |-> stream]

\* A variant of _connection_close that raises its event twice.
connection_close_twice(events) == Append(Append(events, FALSE), FALSE)
\* _connection_close: on_connected_changed(connected=False)
connection_close(events) == Append(events, FALSE)

\* self._connection.send_message(...) as the phone calls it.
phone_send(message, code) ==
    IF ~connection
    THEN [raised |-> "AttributeError", sent |-> sent, futures |-> futures,
          timers |-> timers, q |-> reply_q, fut |-> 0]
    ELSE send_message(message, code)

Hs(pc, step, fut, error, timed_out) ==
    [pc |-> pc, step |-> step, fut |-> fut, error |-> error, timed_out |-> timed_out]

\* The public commands and what each transmits.
Commands == {"answer", "dial", "hangup", "reject", "send_dtmf"}
CommandText ==
    ("answer" :> "ATA") @@ ("dial" :> "ATD5551234") @@ ("hangup" :> "AT+CHUP")
    @@ ("reject" :> "AT+CHUP") @@ ("send_dtmf" :> "AT+VTS=1")

\* The guard every command starts with.
command_guard_started_only ==
    IF ~started THEN "InvalidOperationError" ELSE "none"
command_guard ==
    IF ~started THEN "InvalidOperationError"
    ELSE IF ~handshake_completed THEN "InvalidOperationError"
    ELSE "none"

(***************************************************************************)
(* The phone on its channel: the host starts it and calls commands, the    *)
(* event loop runs the handshake coroutine, timers and the close callback, *)
(* the AG sends messages.                                                  *)
(***************************************************************************)
\* start()
Start ==
    /\ IF started
       THEN UNCHANGED <<started, csm, hs>>
       ELSE /\ started' = TRUE /\ csm' = "idle"
            /\ hs' = Hs("scheduled", 0, 0, "none", FALSE)
    /\ last' = Last("start", NoMsg, "none", <<>>, {}, Snapshot(""), <<>>)
    /\ UNCHANGED <<stream, reply_q, futures, timers, expired, indmap, nrecv, sent,
                   on_close_calls, remainder>>
    /\ UNCHANGED <<handshake_completed, ag_features, ag_multicall, codec, connection,
                   connected_events>>
    /\ UNCHANGED <<input, pos, dispatched, split_delim, auxVars>>

\* What the coroutine does from the point where step i is to be sent: the send, and
\* where that leaves the coroutine.
SendStep(i) ==
    LET r == phone_send(Steps[i].cmd, Steps[i].code) IN
    [send |-> r,
     hs |-> IF r.raised # "none" THEN Hs("crashed", i, 0, r.raised, FALSE)
            ELSE Hs("waiting", i, r.fut, "none", FALSE),
     completed |-> FALSE]

\* The end of the try block: the fire-and-forget carrier query, then completion.
Finish ==
    LET r == phone_send("AT+COPS?", "None") IN
    [send |-> r,
     hs |-> IF r.raised # "none" THEN Hs("crashed", Len(Steps) + 1, 0, r.raised, FALSE)
            ELSE Hs("done", Len(Steps) + 1, 0, "none", FALSE),
     completed |-> r.raised = "none"]

Continue(i) == IF i > Len(Steps) THEN Finish ELSE SendStep(i)

\* The event loop runs the scheduled coroutine up to its first yield.
HandshakeBegin ==
    /\ hs.pc = "scheduled"
    /\ LET c == SendStep(1) IN
       /\ hs' = c.hs
       /\ sent' = c.send.sent /\ futures' = c.send.futures
       /\ timers' = c.send.timers /\ reply_q' = c.send.q
       /\ last' = Last("handshake", NoMsg, c.send.raised, <<>>, {}, Snapshot(""), <<>>)
    /\ UNCHANGED <<stream, expired, indmap, nrecv, on_close_calls, remainder>>
    /\ UNCHANGED <<started, handshake_completed, ag_features, ag_multicall, codec, csm,
                   connection, connected_events>>
    /\ UNCHANGED <<input, pos, dispatched, split_delim, auxVars>>

\* The awaited future is settled and the coroutine resumes: with the reply it runs on
\* to the next yield or to the end; with TimeoutError it closes the connection and
\* returns; any other exception leaves the coroutine.
HandshakeResume ==
    /\ hs.pc = "waiting" /\ futures[hs.fut].state # "pending"
    /\ LET f == futures[hs.fut]
           timeout == f.state = "exception" /\ f.value.v = "TimeoutError"
           n == NextStep(hs.step, IF hs.step = 1 THEN f.value ELSE ag_features)
           c == Continue(n.step)
       IN
       IF f.state = "result"
       THEN /\ ag_features' = (IF hs.step = 1 THEN f.value ELSE ag_features)
            /\ codec' = (IF hs.step = 1 THEN PyStr("CVSD") ELSE codec)
            /\ ag_multicall' = (IF hs.step = 6 THEN f.value ELSE ag_multicall)
            /\ IF n.raised # "none"
               THEN /\ hs' = Hs("crashed", hs.step, 0, n.raised, FALSE)
                    /\ UNCHANGED <<sent, futures, timers, reply_q, handshake_completed,
                                   connected_events>>
                    /\ last' = Last("handshake", NoMsg, n.raised, <<>>, {},
                                    Snapshot(""), <<>>)
               ELSE /\ hs' = c.hs
                    /\ sent' = c.send.sent /\ futures' = c.send.futures
                    /\ timers' = c.send.timers /\ reply_q' = c.send.q
                    /\ handshake_completed' = c.completed
                    /\ connected_events' = (IF c.completed
                                            THEN Append(connected_events, TRUE)
                                            ELSE connected_events)
                    /\ last' = Last("handshake", NoMsg, c.send.raised, <<>>, {},
                                    Snapshot(""), <<>>)
            /\ UNCHANGED stream
       ELSE IF timeout
       THEN /\ stream' = handshake_abort.stream
            /\ hs' = Hs("aborted", hs.step, 0, handshake_abort.raised, TRUE)
            /\ last' = Last("handshake", NoMsg, handshake_abort.raised, <<>>, {},
                            Snapshot(""), <<>>)
            /\ UNCHANGED <<sent, futures, timers, reply_q, handshake_completed,
                           connected_events, ag_features, codec, ag_multicall>>
       ELSE /\ hs' = Hs("crashed", hs.step, 0, f.value.v, FALSE)
            /\ last' = Last("handshake", NoMsg, f.value.v, <<>>, {}, Snapshot(""), <<>>)
            /\ UNCHANGED <<stream, sent, futures, timers, reply_q, handshake_completed,
                           connected_events, ag_features, codec, ag_multicall>>
    /\ UNCHANGED <<expired, indmap, nrecv, on_close_calls, remainder>>
    /\ UNCHANGED <<started, csm, connection>>
    /\ UNCHANGED <<input, pos, dispatched, split_delim, auxVars>>

\* The host calls answer(), dial(), hangup(), reject() or send_dtmf().
Command(c) ==
    /\ LET g == command_guard
           r == phone_send(CommandText[c], "None") IN
       /\ sent' = (IF g = "none" THEN r.sent ELSE sent)
       /\ last' = Last("command", Text(c), IF g = "none" THEN r.raised ELSE g,
                       <<>>, {}, Snapshot(""), <<>>)
    /\ UNCHANGED <<stream, reply_q, futures, timers, expired, indmap, nrecv,
                   on_close_calls, remainder>>
    /\ UNCHANGED <<phoneVars, input, pos, dispatched, split_delim, auxVars>>

\* _data_ready hands one framed message to _on_message; the callbacks go to the phone.
\* HandsFreeProfile starts the phone in the callback that creates it, before the event
\* loop can deliver any data.
PhoneReceive(msg) ==
    /\ started /\ stream = "open" /\ nrecv < MaxRecv
    /\ LET o == on_message(msg, reply_q, indmap)
           p == RunCallbacks(o.callbacks, csm) IN
       /\ reply_q' = o.q /\ indmap' = o.im
       /\ timers' = timers \ {o.entry.handle}
       /\ futures' = Settle(futures, o.entry, o.settle, o.value)
       /\ csm' = p.csm
       /\ last' = Last("recv", msg, IF o.raised # "none" THEN o.raised ELSE p.raised,
                       o.callbacks, SettledBy(futures, futures'),
                       Snapshot(IF msg.kind = "OK" THEN "OK" ELSE msg.code), p.events)
    /\ nrecv' = nrecv + 1
    /\ UNCHANGED <<stream, expired, sent, on_close_calls, remainder>>
    /\ UNCHANGED <<started, handshake_completed, ag_features, ag_multicall, codec,
                   connection, hs, connected_events>>
    /\ UNCHANGED <<input, pos, dispatched, split_delim, auxVars>>

\* The event loop runs _on_close; on_close is the phone's _connection_close.
PhoneOnClose ==
    /\ stream = "closing"
    /\ LET r == on_close(reply_q, futures) IN
       /\ stream' = "closed" /\ remainder' = <<>>
       /\ reply_q' = r.q /\ futures' = r.futures
       /\ on_close_calls' = on_close_calls + (IF r.on_close THEN 1 ELSE 0)
       /\ connection' = (IF r.on_close THEN FALSE ELSE connection)
       /\ connected_events' = (IF r.on_close THEN connection_close(connected_events)
                               ELSE connected_events)
       /\ last' = Last("on_close", NoMsg, r.raised,
                       IF r.on_close THEN <<Callback("on_close", "", PyNone)>> ELSE <<>>,
                       SettledBy(futures, futures'), Snapshot(""), <<>>)
    /\ UNCHANGED <<timers, expired, indmap, nrecv, sent>>
    /\ UNCHANGED <<started, handshake_completed, ag_features, ag_multicall, codec, csm, hs>>
    /\ UNCHANGED <<input, pos, dispatched, split_delim, auxVars>>

PhoneNext ==
    \/ Start
    \/ HandshakeBegin
    \/ HandshakeResume
    \/ \E c \in Commands : Command(c)
    \/ \E msg \in AGMessages : PhoneReceive(msg)
    \/ TimerFire
    \/ PeerClose
    \/ PhoneOnClose

InitPhone == ChanInit /\ PhoneIdle /\ ReadIdle /\ AuxIdle

SpecPhone == InitPhone /\ [][PhoneNext]_vars

(***************************************************************************)
(* _data_ready: framing of the byte stream.  A byte is "CR", "LF", the     *)
(* ASCII letter "A", or "X", a byte above 0x7f that the ASCII decode with  *)
(* errors='ignore' drops.                                                  *)
(***************************************************************************)
Bytes == {"CR", "LF", "A", "X"}

\* msg.decode('ascii', errors='strict'), falling back to errors='ignore'
RECURSIVE decode_ascii(_)
decode_ascii(bs) ==
    IF bs = <<>> THEN <<>>
    ELSE IF Head(bs) = "X" THEN decode_ascii(Tail(bs))
    ELSE <<Head(bs)>> \o decode_ascii(Tail(bs))

\* Index of the first CR LF in data, 0 when there is none.
FindCRLF(data) ==
    LET hits == {i \in 1..(Len(data) - 1) : data[i] = "CR" /\ data[i + 1] = "LF"} IN
    IF hits = {} THEN 0 ELSE Min(hits)

\* The while loop of _data_ready: split off one message at a time.
RECURSIVE split_loop(_, _)
split_loop(data, out) ==
    LET i == FindCRLF(data) IN
    IF i = 0 THEN [remainder |-> data, msgs |-> out]
    ELSE LET msg == decode_ascii(SubSeq(data, 1, i - 1))
             rest == SubSeq(data, i + 2, Len(data))
             out2 == IF Len(msg) > 0 THEN Append(out, msg) ELSE out
         IN IF rest = <<>> THEN [remainder |-> <<>>, msgs |-> out2]
            ELSE split_loop(rest, out2)

\* The bytes left over from the previous read go in front of the new ones.
PrependDropped(rem, data) == data
Prepend(rem, data) == IF Len(rem) > 0 THEN rem \o data ELSE data

data_ready(rem, data) == split_loop(Prepend(rem, data), <<>>)

RECURSIVE SeqsUpTo(_)
SeqsUpTo(n) ==
    IF n = 0 THEN {<<>>}
    ELSE LET shorter == SeqsUpTo(n - 1) IN
         shorter \cup {Append(q, b) : q \in {x \in shorter : Len(x) = n - 1}, b \in Bytes}

\* The stream delivers the next k bytes of the input in one read.
Read(k) ==
    /\ pos + k <= Len(input)
    /\ LET r == data_ready(remainder, SubSeq(input, pos + 1, pos + k)) IN
       /\ remainder' = r.remainder
       /\ dispatched' = dispatched \o r.msgs
    /\ pos' = pos + k /\ split_delim' = (split_delim \/ (pos + k < Len(input) /\ input[pos + k] = "CR" /\ input[pos + k + 1] = "LF"))
    /\ UNCHANGED <<input, chanVars, phoneVars, auxVars>>

InitRead ==
    /\ input \in SeqsUpTo(MaxLen) /\ pos = 0 /\ dispatched = <<>> /\ split_delim = FALSE
    /\ ChanInit /\ PhoneIdle /\ AuxIdle

ReadNext == \E k \in 1..MaxLen : Read(k)

SpecRead == InitRead /\ [][ReadNext]_vars

\* C5: however the bytes read so far were split into reads, the messages dispatched
\* and the bytes held back are those of a single read of the same bytes.
C5_ChunkInvariance ==
    LET whole == data_ready(<<>>, SubSeq(input, 1, pos)) IN
    pos > 0 => dispatched = whole.msgs /\ remainder = whole.remainder

\* A read ended between the CR and the LF of a delimiter, a later read brought the
\* rest, and the message that delimiter ends was dispatched.
C5_Witness ==
    /\ pos = Len(input) /\ Len(dispatched) >= 2
    /\ split_delim

(***************************************************************************)
(* Claims about the channel (SpecChannel)                                  *)
(***************************************************************************)
\* The codes whose replies a decoder turns into a payload (CME goes to on_error).
ReplyCodes == Handlers \ {"CME"}
IsReply(msg) == msg.kind = "OK" \/ (msg.kind = "text" /\ msg.colon /\ msg.code \in ReplyCodes)
ReplyCode(msg) == IF msg.kind = "OK" THEN "OK" ELSE msg.code
DeliveredTo(cb, code) ==
    /\ Len(last.callbacks) = 1
    /\ last.callbacks[1].cb = cb /\ last.callbacks[1].code = code

C2_ResolvesOldest ==
    (last.op = "recv" /\ last.settled # {}) =>
        /\ last.settled = {last.before.q[1].future}
        /\ last.before.q[1].handle \notin timers

InQueue(f) == \E c \in DOMAIN reply_q : \E i \in DOMAIN reply_q[c] : reply_q[c][i].future = f
TimedOut(f) ==
    /\ futures[f].state = "exception"
    /\ futures[f].value.t = "str" /\ futures[f].value.v = "TimeoutError"

\* C3 as claimed: a future whose deadline passed has failed with TimeoutError and
\* left its queue, and no later reply settles it.
C3_TimeoutFailsFuture ==
    /\ \A f \in expired : TimedOut(f) /\ ~InQueue(f)
    /\ last.op = "recv" => last.settled \cap expired = {}

\* C4 as claimed: once the close callback has run, no future is pending, the reply
\* queue is empty and on_close has been invoked exactly once.
C4_CloseFailsPending ==
    stream = "closed" =>
        /\ \A f \in DOMAIN futures : futures[f].state # "pending"
        /\ DOMAIN reply_q = {}
        /\ on_close_calls = 1

(***************************************************************************)
(* Claims about the phone (SpecPhone)                                      *)
(***************************************************************************)
HandshakeEnded == hs.pc \in {"done", "aborted", "crashed"}
Raised(connected) == \E i \in DOMAIN connected_events : connected_events[i] = connected
TimesRaised(connected) ==
    Cardinality({i \in DOMAIN connected_events : connected_events[i] = connected})

\* C6 as claimed: a handshake in which every awaited step was answered in time, on a
\* stream that stayed open, ends completed, with connected=True raised exactly once.
C6_HandshakeCompletes ==
    ( /\ HandshakeEnded /\ stream = "open" /\ expired = {}
      /\ futures # <<>> /\ \A f \in DOMAIN futures : futures[f].state = "result" )
    => (handshake_completed /\ TimesRaised(TRUE) = 1)

AwaitedTimedOut == hs.pc = "waiting" /\ TimedOut(hs.fut)

\* C7: once the awaited step has timed out the coroutine can only return: it sends
\* nothing more and never completes; when it has returned the stream is closed (or
\* closing), the completed flag is false and connected=True was never raised.
C7_TimeoutAborts ==
    /\ [](hs.timed_out => /\ hs.pc = "aborted" /\ stream # "open"
                          /\ ~handshake_completed /\ ~Raised(TRUE))
    /\ [][(AwaitedTimedOut \/ hs.pc = "aborted") =>
            /\ sent' = sent /\ ~handshake_completed'
            /\ hs'.pc \in {hs.pc, "aborted"}]_vars

C7_Witness ==
    /\ hs.pc = "aborted" /\ hs.timed_out /\ stream = "closed"
    /\ sent = <<"AT+BRSF=518">> /\ expired = {1}

\* C8: a command called when the phone is not Ready raises InvalidOperationError and
\* writes nothing; one called when it is Ready writes its protocol command.
C8_CommandsOnlyWhenReady ==
    last.op = "command" =>
        IF last.before.ready
        THEN last.raised = "none" /\ sent = Append(SubSeq(sent, 1, last.before.nsent),
                                                   CommandText[last.arg.kind])
        ELSE last.raised = "InvalidOperationError" /\ Len(sent) = last.before.nsent

\* A command refused after the handshake was aborted and the connection closed.
C8_Witness ==
    /\ last.op = "command" /\ last.raised = "InvalidOperationError"
    /\ started /\ hs.pc = "aborted" /\ stream = "closed"

EventName == ("battchg" :> "battery") @@ ("roam" :> "roaming")
             @@ ("service" :> "service") @@ ("signal" :> "signal")

\* C9 as claimed: a +CIEV update of battchg, roam, service or signal that reaches
\* the phone raises the event named after it, carrying the new value.
C9_IndicatorEvents ==
    ( /\ last.op = "recv" /\ DeliveredTo("on_message", "CIEV")
      /\ last.callbacks[1].data.t = "dict"
      /\ last.callbacks[1].data.v["name"] \in DOMAIN EventName )
    => \E i \in DOMAIN last.events :
           last.events[i].name = EventName[last.callbacks[1].data.v["name"]]

IsCalls(e) == e.name = "calls"

\* C10: a received message raises one "calls" event carrying the new state when it
\* changed the call state, and none when it did not.
C10_CallsEvent ==
    last.op = "recv" =>
        SelectSeq(last.events, IsCalls) =
            (IF csm # last.before.csm THEN <<Event("calls", PyStr(csm))>> ELSE <<>>)

C10_Witness ==
    /\ last.op = "recv" /\ last.before.csm = "idle" /\ csm = "active"
    /\ SelectSeq(last.events, IsCalls) = <<Event("calls", PyStr("active"))>>

(***************************************************************************)
(* The call state machine on its own: a started phone whose                *)
(* _connection_message is handed indicator messages one after another.     *)
(***************************************************************************)
CievData(name, value) == PyDict(("name" :> name) @@ ("value" :> value))
CsmEvent(code, data) == [code |-> code, data |-> data]
CsmEvents ==
    {CsmEvent("CIEV", CievData(n, v)) : n \in {"call", "callsetup"}, v \in {"0", "1", "3"}}
    \cup {CsmEvent("CIND", PyDict(("call" :> "0") @@ ("callsetup" :> "0") @@ ("signal" :> "3"))),
          CsmEvent("CLIP", PyStr("x"))}

\* on_message(code, data) arrives at the phone: the whole of _connection_message.
CsmFeed(e) ==
    /\ started /\ Len(csm_log) < MaxEvents
    /\ LET r == connection_message(e.code, e.data, csm) IN
       /\ csm' = r.csm
       /\ csm_log' = Append(csm_log, [ev |-> e, from |-> csm, to |-> r.csm,
                                      changed |-> (\E i \in DOMAIN r.events :
                                                      r.events[i].name = "calls")])
       /\ last' = Last("recv", NoMsg, r.raised, <<>>, {}, Snapshot(""), r.events)
    /\ UNCHANGED <<stream, reply_q, futures, timers, expired, indmap, nrecv, sent,
                   on_close_calls, remainder>>
    /\ UNCHANGED <<started, handshake_completed, ag_features, ag_multicall, codec,
                   connection, hs, connected_events>>
    /\ UNCHANGED <<input, pos, dispatched, split_delim, mediaVars, pumpVars, sinkVars, sessVars, lateVars>>

CsmStep == \E e \in CsmEvents : CsmFeed(e)

CsmNextAction == Start \/ CsmStep

InitCsm == ChanInit /\ PhoneIdle /\ ReadIdle /\ AuxIdle

SpecCsm == InitCsm /\ [][CsmNextAction]_vars

CallSequence ==
    <<CsmEvent("CIEV", CievData("call", "0")), CsmEvent("CIEV", CievData("callsetup", "3")),
      CsmEvent("CIEV", CievData("call", "1")), CsmEvent("CIEV", CievData("call", "0"))>>
FedCallSequence ==
    Len(csm_log) >= 4 /\ \A i \in 1..4 : csm_log[i].ev = CallSequence[i]

IndNames == {"call", "callsetup", "signal"}
IndValues == {"0", "3"}

\* Lists of distinct indicator names, and value lines, of 1..MaxInd entries.
NameLists ==
    UNION {{s \in [1..k -> IndNames] : \A i, j \in 1..k : s[i] = s[j] => i = j} : k \in 1..MaxInd}
ValueLines == UNION {[1..k -> IndValues] : k \in 1..MaxInd}

CindMessages ==
    {Coded("CIND", TRUE, n) : n \in NameLists} \cup {Coded("CIND", FALSE, v) : v \in ValueLines}

CindReceive == \E msg \in CindMessages : ChanReceive(msg)

InitCind == ChanInit /\ PhoneIdle /\ ReadIdle /\ AuxIdle

SpecCind == InitCind /\ [][CindReceive]_vars

IsCindCaps(msg) == msg.kind = "text" /\ msg.code = "CIND" /\ msg.paren
IsCindValues(msg) == msg.kind = "text" /\ msg.code = "CIND" /\ ~msg.paren
ByPosition(names, values) ==
    PyDict([n \in {names[i] : i \in DOMAIN names} |->
               values[CHOOSE i \in DOMAIN names : names[i] = n]])
ValuesAfterCaps ==
    /\ last.op = "recv" /\ IsCindCaps(last.arg)
    /\ last'.op = "recv" /\ IsCindValues(last'.arg) /\ nrecv' = nrecv + 1
    /\ Len(last'.arg.params) = Len(last.arg.params)

\* C12 as claimed: a value line v1..vk received right after a capability reply naming
\* n1..nk is decoded to {n1: v1, ..., nk: vk}.
C12_DecodesByPosition ==
    [][ValuesAfterCaps =>
          /\ last'.raised = "none"
          /\ last'.callbacks =
                 <<Callback("on_message", "CIND", ByPosition(last.arg.params, last'.arg.params))>>]_vars

\* The same for capability replies that name two or more indicators.
CindFromTwo ==
    [][(ValuesAfterCaps /\ Len(last.arg.params) >= 2) =>
          /\ last'.raised = "none"
          /\ last'.callbacks =
                 <<Callback("on_message", "CIND", ByPosition(last.arg.params, last'.arg.params))>>]_vars

\* The example of the description: call, callsetup, signal and the value line 0,0,3.
CindExample ==
    /\ last.op = "recv" /\ last.arg = Coded("CIND", FALSE, <<"0", "0", "3">>)
    /\ indmap = IndmapOf(<<"call", "callsetup", "signal">>)
    /\ last.callbacks = <<Callback("on_message", "CIND",
                             PyDict(("call" :> "0") @@ ("callsetup" :> "0") @@ ("signal" :> "3")))>>

(***************************************************************************)
(* MediaManager for one adapter, with the callbacks HandsFreeProfile sets  *)
(* on it.  A socket is "open", "closed" (close() was called on it) or      *)
(* "dropped" (the last reference to it went away without a close(); the    *)
(* interpreter closes the descriptor when it finalizes the object).        *)
(***************************************************************************)
CVSD_S16LE == 96
SampleFormats == {CVSD_S16LE, 3}

Sock(kind, state) == [kind |-> kind, state |-> state]
MediaEvent(connected, socket) == [connected |-> connected, socket |-> socket]

MediaState ==
    [conn |-> connections, socks |-> socks, handlers |-> io_handlers,
     checks |-> close_checks, retries |-> start_retries, fails |-> bind_failures,
     events |-> media_events, errors |-> setup_errors]

\* MediaManager.status(adapter)
status(m) == m.conn.status

\* HandsFreeProfile._media_setup_error: forwards the error and, when the adapter is
\* idle, schedules MediaManager.start in 10 s.
media_setup_error(m) ==
    IF status(m) = "idle"
    THEN [m EXCEPT !.errors = @ + 1, !.retries = @ + 1]
    ELSE [m EXCEPT !.errors = @ + 1]

\* MediaManager.start with _sco_listen: a failed bind closes the new socket and
\* reports a setup error; a good one registers the accept handler.
media_start(m, bind_ok) ==
    IF m.conn # NoConn THEN m
    ELSE IF bind_ok
    THEN LET n == Len(m.socks) + 1 IN
         [m EXCEPT !.socks = Append(@, Sock("listen", "open")),
                   !.handlers = @ \cup {n},
                   !.conn = [status |-> "listening", socket |-> n, epoll |-> FALSE]]
    ELSE media_setup_error([m EXCEPT !.socks = Append(@, Sock("listen", "closed")),
                                     !.fails = @ + 1])

\* _sco_close: the handler is removed only in the listening state.
sco_close(m) ==
    [m EXCEPT !.handlers = IF m.conn.status = "listening" THEN @ \ {m.conn.socket} ELSE @,
              !.socks[m.conn.socket].state = "closed"]

\* MediaManager.stop
media_stop(m) ==
    IF m.conn = NoConn THEN m ELSE [sco_close(m) EXCEPT !.conn = NoConn]

\* self._connections[adapter]["socket"].close() on the listening socket
close_listening_skipped(ss, l) == ss
close_listening(ss, l) == [ss EXCEPT ![l].state = "closed"]

\* _sco_connection_ready.  outcome says which call fails, if any.
sco_connection_ready(m, outcome, mode) ==
    IF outcome = "accept_error" THEN media_setup_error(m)
    ELSE IF outcome \in {"mtu_error", "mode_error"}
    THEN media_setup_error([m EXCEPT !.socks = Append(@, Sock("accepted", "closed"))])
    ELSE IF mode # CVSD_S16LE
    THEN media_setup_error([m EXCEPT !.socks = Append(@, Sock("accepted", "dropped"))])
    ELSE LET n == Len(m.socks) + 1 IN
         [m EXCEPT !.socks = Append(close_listening(@, m.conn.socket), Sock("accepted", "open")),
                   !.conn = [status |-> "connected", socket |-> n, epoll |-> TRUE],
                   !.checks = @ + 1,
                   !.events = Append(@, MediaEvent(TRUE, n))]

\* ep.poll(): the hang-up of the peer is reported for as long as the socket is open.
poll_never(s, hung) == FALSE
poll_closed(s, hung) == s \in hung

\* _sco_close_check, one run of the callback.  A tracked adapter without an "epoll"
\* entry (it is listening again) ends the callback with KeyError.  On a detected
\* close the manager stops, raises connected=False, and the HandsFreeProfile
\* callback starts listening again.
close_check_raises(m) == m.conn # NoConn /\ ~m.conn.epoll
sco_close_check(m, hung, bind_ok) ==
    LET m0 == [m EXCEPT !.checks = @ - 1] IN
    IF m0.conn = NoConn \/ ~m0.conn.epoll THEN m0
    ELSE IF poll_closed(m0.conn.socket, hung)
    THEN media_start([media_stop(m0) EXCEPT
                         !.events = Append(@, MediaEvent(FALSE, m0.conn.socket))], bind_ok)
    ELSE [m0 EXCEPT !.checks = @ + 1]

MediaSet(r) ==
    /\ connections' = r.conn /\ socks' = r.socks /\ io_handlers' = r.handlers
    /\ close_checks' = r.checks /\ start_retries' = r.retries /\ bind_failures' = r.fails
    /\ media_events' = r.events /\ setup_errors' = r.errors

MLast(op, arg, raised, at_event) ==
    [op |-> op, arg |-> arg, raised |-> raised, before |-> MediaState, at_event |-> at_event]

\* A bind may fail, a bounded number of times.
BindResults == {TRUE} \cup (IF bind_failures < MaxBindFailures THEN {FALSE} ELSE {})
\* Room for one more socket, or no socket will be created.
Room(n) == Len(socks) + n <= MaxSocks

\* HandsFreeProfile._adapter_connected_changed(connected=True): MediaManager.start
HostStart(bind_ok) ==
    /\ connections # NoConn \/ Room(1)
    /\ MediaSet(media_start(MediaState, bind_ok))
    /\ m_last' = MLast("start", bind_ok, "none", MediaState)
    /\ UNCHANGED <<peer_closed, coreVars, csmVars, pumpVars, sinkVars, sessVars, lateVars>>

\* HandsFreeProfile.stop or _adapter_connected_changed(connected=False): MediaManager.stop
HostStop ==
    /\ MediaSet(media_stop(MediaState))
    /\ m_last' = MLast("stop", "", "none", MediaState)
    /\ UNCHANGED <<peer_closed, coreVars, csmVars, pumpVars, sinkVars, sessVars, lateVars>>

ReadyOutcomes == {"accept_error", "mtu_error", "mode_error", "ok"}

\* The IOLoop sees the listening socket readable and runs _sco_connection_ready.
ConnectionReady(outcome, mode) ==
    /\ \E h \in io_handlers : socks[h].state = "open"
    /\ Room(2)
    /\ (outcome = "ok" /\ mode = CVSD_S16LE) \/ setup_errors < MaxSetupErrors
    /\ IF connections = NoConn
       THEN /\ MediaSet(MediaState)
            /\ m_last' = MLast("ready", outcome, "KeyError", MediaState)
       ELSE /\ MediaSet(sco_connection_ready(MediaState, outcome, mode))
            /\ m_last' = MLast("ready", IF outcome = "ok" /\ mode # CVSD_S16LE
                                        THEN "bad_format" ELSE outcome,
                               "none", MediaState)
    /\ UNCHANGED <<peer_closed, coreVars, csmVars, pumpVars, sinkVars, sessVars, lateVars>>

\* The peer hangs up the established connection.
PeerHangup ==
    /\ connections.status = "connected" /\ connections.socket \notin peer_closed
    /\ peer_closed' = peer_closed \cup {connections.socket}
    /\ m_last' = MLast("hangup", "", "none", MediaState)
    /\ UNCHANGED <<connections, socks, io_handlers, close_checks, start_retries,
                   bind_failures, media_events, setup_errors, coreVars, csmVars, pumpVars, sinkVars, sessVars, lateVars>>

\* The IOLoop runs one pending _sco_close_check callback.
CloseCheck(bind_ok) ==
    /\ close_checks > 0
    /\ MediaSet(sco_close_check(MediaState, peer_closed, bind_ok))
    /\ m_last' = MLast("check", bind_ok,
                       IF close_check_raises(MediaState) THEN "KeyError" ELSE "none",
                       media_stop([MediaState EXCEPT !.checks = @ - 1]))
    /\ UNCHANGED <<peer_closed, coreVars, csmVars, pumpVars, sinkVars, sessVars, lateVars>>

\* The 10 s timer of _media_setup_error fires: MediaManager.start
RetryFire(bind_ok) ==
    /\ start_retries > 0
    /\ connections # NoConn \/ Room(1)
    /\ MediaSet(media_start([MediaState EXCEPT !.retries = @ - 1], bind_ok))
    /\ m_last' = MLast("retry", bind_ok, "none", MediaState)
    /\ UNCHANGED <<peer_closed, coreVars, csmVars, pumpVars, sinkVars, sessVars, lateVars>>

MediaStart == \E b \in BindResults : HostStart(b)
MediaReady == \E o \in ReadyOutcomes, f \in SampleFormats : ConnectionReady(o, f)
MediaCheck == \E b \in BindResults : CloseCheck(b)
MediaRetry == \E b \in BindResults : RetryFire(b)

MediaNext == MediaStart \/ HostStop \/ MediaReady \/ PeerHangup \/ MediaCheck \/ MediaRetry

InitMedia == ChanInit /\ PhoneIdle /\ ReadIdle /\ AuxIdle

SpecMedia == InitMedia /\ [][MediaNext]_vars

\* The IOLoop runs every callback it has been handed.
SpecMediaFair == SpecMedia /\ WF_vars(MediaCheck)

(***************************************************************************)
(* Claims about the MediaManager (SpecMedia, SpecMediaFair)                *)
(***************************************************************************)
OpenSocks == {i \in DOMAIN socks : socks[i].state = "open"}

\* C13: between handlers at most one SCO socket of the adapter is open, it is the one
\* the manager tracks, and so a listening and an accepted socket are never open together.
C13_OneOpenSocket ==
    /\ Cardinality(OpenSocks) <= 1
    /\ OpenSocks \subseteq {connections.socket}
    /\ ~(\E l, s \in OpenSocks : socks[l].kind = "listen" /\ socks[s].kind = "accepted")

\* A second connection is established: both listening sockets are closed by then.
C13_Witness ==
    /\ connections.status = "connected" /\ socks[connections.socket].state = "open"
    /\ Cardinality({i \in DOMAIN socks : socks[i].kind = "listen" /\ socks[i].state = "closed"}) >= 2

\* C14 as claimed: a connection with an unsupported sample format is rejected: the
\* accepted socket is closed, a setup error is reported, the adapter does not become
\* connected and no connected=True event is raised.
C14_RejectsBadFormat ==
    (m_last.op = "ready" /\ m_last.arg = "bad_format") =>
        /\ socks[Len(socks)].kind = "accepted" /\ socks[Len(socks)].state = "closed"
        /\ setup_errors = m_last.before.errors + 1
        /\ connections.status # "connected"
        /\ media_events = m_last.before.events

\* C15 as claimed: after stop the socket that was held is closed, no accept handler is
\* left on the IOLoop and the adapter is idle; stop on an idle adapter changes nothing.
C15_StopLeavesNothing ==
    m_last.op = "stop" =>
        /\ connections = NoConn
        /\ io_handlers = {}
        /\ m_last.before.conn # NoConn => socks[m_last.before.conn.socket].state = "closed"
        /\ m_last.before.conn = NoConn => MediaState = m_last.before

Detected ==
    /\ m_last.op = "check" /\ m_last.before.conn.status = "connected"
    /\ m_last.before.conn.socket \in peer_closed
TimesDisconnected(s) ==
    Cardinality({i \in DOMAIN media_events : media_events[i] = MediaEvent(FALSE, s)})

\* C16: a hang-up of the peer on the connected socket leads to the connection being
\* torn down; the check that detects it closes the socket, leaves the adapter idle
\* when it raises the one connected=False event, and is not scheduled again; no
\* socket ever gets a second connected=False event.
C16_PeerCloseTornDown ==
    /\ [](Detected =>
             /\ socks[m_last.before.conn.socket].state = "closed"
             /\ m_last.at_event.conn = NoConn
             /\ media_events = Append(m_last.before.events,
                                      MediaEvent(FALSE, m_last.before.conn.socket))
             /\ close_checks = m_last.before.checks - 1)
    /\ [](\A s \in DOMAIN socks : TimesDisconnected(s) <= 1)
    /\ ((connections.status = "connected" /\ connections.socket \in peer_closed)
           ~> ~(connections.status = "connected" /\ connections.socket \in peer_closed))

C16_Witness ==
    /\ Detected /\ TimesDisconnected(m_last.before.conn.socket) = 1
    /\ socks[m_last.before.conn.socket].state = "closed"
    /\ connections.status = "listening"

\* C17 as claimed: no start of the manager is ever scheduled by the program itself:
\* no retry timer is pending and none has fired.
C17_NoAutomaticRetry ==
    start_retries = 0 /\ m_last.op # "retry"

\* A close check that finds the adapter listening again was scheduled for an
\* earlier connection.
StaleCheck == m_last.op = "check" /\ m_last.before.conn.status = "listening"

\* The stale check leaves the new listening entry, its socket and the events alone.
StaleCheckSparesListener ==
    StaleCheck =>
        /\ connections = m_last.before.conn
        /\ socks = m_last.before.socks /\ io_handlers = m_last.before.handlers
        /\ media_events = m_last.before.events

\* Two connections were made one after the other and both their checks are pending.
TwoChains == close_checks = 2 /\ connections.status = "connected"

\* C38: a close check left over from an earlier connection finds the adapter
\* listening again and does nothing to it: it raises no error, emits no
\* event and keeps the listener, and at most one close check is pending.
C38_StaleCheckHarmless ==
    /\ StaleCheck => (m_last.raised = "none" /\ StaleCheckSparesListener)
    /\ close_checks <= 1

(***************************************************************************)
(* RealTimeSocketPump: start, write and stop run on the IOLoop thread, the *)
(* worker thread runs _worker_proc.  One step of the worker is one         *)
(* statement that touches shared state or the socket.  Data is counted in  *)
(* chunks of write_mtu bytes.  recv and send are taken to return.          *)
(***************************************************************************)
otherThanPump == <<coreVars, csmVars, mediaVars, sinkVars, sessVars, lateVars>>

\* What ep.poll(0.0) followed by result[0][1] can produce: an OSError ("raise"),
\* an empty list, whose result[0] raises IndexError inside the same try
\* ("empty"), an event with neither EPOLLIN nor EPOLLOUT ("hup"), or an
\* event with one or both of them.
PollResults == {"raise", "empty", "hup", "r", "w", "rw"}
PollFails(res) == res \in {"raise", "empty"}

\* The while condition of _worker_proc, as an exit test.
loop_exits(w) == ~(pump_started \/ w.fatal)

IOLoopFree == pump_stop # "joining"

\* start(socket, read_mtu, write_mtu, nodata_wait_msecs): the chunk size, in bytes.
write_mtu == 2

\* The bytes a write() call queues, and the sizes write() is called with.
WriteSizes == {1, write_mtu}
NewBytes(n) == [k \in 1..n |-> pump_written + k]

PLast(op, arg, raised, chunk) ==
    [op |-> op, arg |-> arg, raised |-> raised, chunk |-> chunk,
     before |-> [started |-> pump_started, buffer |-> send_buffer, wire |-> pump_wire,
                 reports |-> pump_reports, fatal |-> worker.fatal,
                 can_write |-> worker.can_write]]

PumpStart ==
    /\ IOLoopFree
    /\ ~pump_started
    /\ pump_started' = TRUE
    /\ send_buffer' = <<>>
    /\ worker' = [pc |-> "test", fatal |-> FALSE, can_read |-> FALSE, can_write |-> FALSE]
    /\ pump_stop' = "none"
    /\ touched_after_error' = FALSE
    /\ p_last' = PLast("start", "", "none", <<>>)
    /\ UNCHANGED <<pump_reports, pump_written, pump_wire, otherThanPump>>

\* write(data) with len(data) = n.
PumpWrite(n) ==
    /\ IOLoopFree
    /\ Len(send_buffer) + n <= MaxSendBuf * write_mtu
    /\ pump_written + n <= MaxWritten
    /\ IF ~pump_started
       THEN /\ UNCHANGED <<send_buffer, pump_written>>
            /\ p_last' = PLast("write", "", "InvalidOperationError", <<>>)
       ELSE /\ send_buffer' = send_buffer \o NewBytes(n)
            /\ pump_written' = pump_written + n
            /\ p_last' = PLast("write", "", "none", NewBytes(n))
    /\ UNCHANGED <<pump_started, pump_stop, worker, pump_reports, touched_after_error,
                   pump_wire, otherThanPump>>

\* stop() up to and including the call of join.
PumpStop ==
    /\ IOLoopFree
    /\ IF ~pump_started
       THEN pump_stop' = "returned" /\ UNCHANGED pump_started
       ELSE pump_started' = FALSE /\ pump_stop' = "joining"
    /\ p_last' = PLast("stop", "", "none", <<>>)
    /\ UNCHANGED <<send_buffer, worker, pump_reports, touched_after_error, pump_written,
                   pump_wire, otherThanPump>>

\* join returns once the worker thread has ended; stop() clears the fields.
PumpJoined ==
    /\ pump_stop = "joining"
    /\ worker.pc = "exited"
    /\ pump_stop' = "returned"
    /\ send_buffer' = <<>>
    /\ p_last' = PLast("joined", "", "none", <<>>)
    /\ UNCHANGED <<pump_started, worker, pump_reports, touched_after_error, pump_written,
                   pump_wire, otherThanPump>>

WorkerTest ==
    /\ worker.pc = "test"
    /\ worker' = [worker EXCEPT !.pc = IF loop_exits(worker) THEN "exited" ELSE "poll"]
    /\ p_last' = PLast("test", "", "none", <<>>)
    /\ UNCHANGED <<pump_started, pump_stop, send_buffer, pump_reports, touched_after_error,
                   pump_written, pump_wire, otherThanPump>>

\* Steps 1 and 2: the poll, and the sleep when nothing can be read or written.
WorkerPoll(res) ==
    /\ worker.pc = "poll"
    /\ touched_after_error' = (touched_after_error \/ worker.fatal)
    /\ IF PollFails(res)
       THEN /\ pump_reports < MaxReports
            /\ pump_reports' = pump_reports + 1
            /\ worker' = [pc |-> "test", fatal |-> TRUE, can_read |-> FALSE,
                          can_write |-> FALSE]
       ELSE /\ UNCHANGED pump_reports
            /\ worker' = [worker EXCEPT
                            !.can_read = res \in {"r", "rw"},
                            !.can_write = res \in {"w", "rw"},
                            !.pc = IF res = "hup" THEN "test" ELSE "read"]
    /\ p_last' = PLast("poll", res, IF res = "raise" THEN "OSError"
                                    ELSE IF res = "empty" THEN "IndexError" ELSE "none", <<>>)
    /\ UNCHANGED <<pump_started, pump_stop, send_buffer, pump_written, pump_wire,
                   otherThanPump>>

\* Step 3.
WorkerRead(ok) ==
    /\ worker.pc = "read"
    /\ IF worker.can_read
       THEN /\ worker' = [worker EXCEPT !.pc = "write", !.fatal = @ \/ ~ok]
            /\ touched_after_error' = (touched_after_error \/ worker.fatal)
       ELSE /\ ok
            /\ worker' = [worker EXCEPT !.pc = "write"]
            /\ UNCHANGED touched_after_error
    /\ p_last' = PLast("read", IF worker.can_read THEN "recv" ELSE "",
                       IF ok THEN "none" ELSE "OSError", <<>>)
    /\ UNCHANGED <<pump_started, pump_stop, send_buffer, pump_reports, pump_written,
                   pump_wire, otherThanPump>>

\* A variant of step 4 that writes whenever the buffer is not empty.
write_ready_any(can_write, buffer) == can_write /\ Len(buffer) >= 1
\* Step 4: if can_write and self._send_buffer.length >= self._write_mtu
write_ready(can_write, buffer) == can_write /\ Len(buffer) >= write_mtu

\* ThreadSafeMemoryBuffer.get(num_bytes): the slice handed out and what stays.
buffer_get(buffer, n) ==
    [data |-> SubSeq(buffer, 1, IF n < Len(buffer) THEN n ELSE Len(buffer)),
     rest |-> SubSeq(buffer, n + 1, Len(buffer))]

\* _send_buffer.get runs before send: the chunk is gone whether or not send raises.
WorkerWrite(ok) ==
    /\ worker.pc = "write"
    /\ IF write_ready(worker.can_write, send_buffer)
       THEN LET g == buffer_get(send_buffer, write_mtu) IN
            /\ send_buffer' = g.rest
            /\ pump_wire' = IF ok THEN pump_wire \o g.data ELSE pump_wire
            /\ worker' = [worker EXCEPT !.pc = "test", !.fatal = @ \/ ~ok]
            /\ touched_after_error' = (touched_after_error \/ worker.fatal)
            /\ p_last' = PLast("step4", "send", IF ok THEN "none" ELSE "OSError", g.data)
       ELSE /\ ok
            /\ worker' = [worker EXCEPT !.pc = "test"]
            /\ p_last' = PLast("step4", "", "none", <<>>)
            /\ UNCHANGED <<send_buffer, pump_wire, touched_after_error>>
    /\ UNCHANGED <<pump_started, pump_stop, pump_reports, pump_written, otherThanPump>>

PumpWrites == \E n \in WriteSizes : PumpWrite(n)
WorkerPolls == \E res \in PollResults : WorkerPoll(res)
WorkerReads == \E ok \in BOOLEAN : WorkerRead(ok)
WorkerWrites == \E ok \in BOOLEAN : WorkerWrite(ok)
WorkerStep == WorkerTest \/ WorkerPolls \/ WorkerReads \/ WorkerWrites

PumpNext ==
    \/ PumpStart
    \/ PumpWrites
    \/ PumpStop
    \/ PumpJoined
    \/ WorkerTest
    \/ WorkerPolls
    \/ WorkerReads
    \/ WorkerWrites

InitPump == ChanInit /\ PhoneIdle /\ ReadIdle /\ AuxIdle
SpecPump == InitPump /\ [][PumpNext]_vars
\* A started thread keeps running, and a join whose thread has ended returns.
SpecPumpFair == SpecPump /\ WF_vars(WorkerStep) /\ WF_vars(PumpJoined)

\* Without a socket error a stop() does return.
StopReturnsWithoutError ==
    (pump_stop = "joining") ~> (pump_stop = "returned" \/ worker.fatal)

\* The state the pump is left in by an error followed by stop().
PumpHung == pump_stop = "joining" /\ worker.fatal /\ worker.pc = "poll" /\ touched_after_error

\* C18: after a socket error in the worker (poll, read or write) the worker
\* does not use the socket again, the worker thread ends, and a stop() that
\* is waiting in join returns, leaving the pump stopped.
C18_WorkerTerminates ==
    /\ [](~touched_after_error)
    /\ (worker.fatal ~> (worker.pc = "exited"))
    /\ ((worker.fatal /\ pump_stop = "joining") ~> (pump_stop = "returned" /\ ~pump_started))

(***************************************************************************)
(* Further properties of the pump (SpecPump)                               *)
(***************************************************************************)
SocketError == p_last.op \in {"poll", "read", "step4"} /\ p_last.raised # "none"
Reported == pump_reports = p_last.before.reports + 1

\* An error of the poll is reported by the step that meets it.
PollErrorReported == (SocketError /\ p_last.op = "poll") => Reported
ReadErrorUnreported ==
    /\ SocketError /\ p_last.op = "read" /\ worker.fatal
    /\ pump_reports = 0

\* C32: every socket error of the worker (poll, read or write) schedules
\* on_fatal_error once, and on_fatal_error is never scheduled a second time.
C32_FatalReportedOnce ==
    /\ SocketError => Reported
    /\ pump_reports <= 1

Step4 == p_last.op = "step4"
Removed == SubSeq(p_last.before.buffer, 1, write_mtu)
Kept == SubSeq(p_last.before.buffer, write_mtu + 1, Len(p_last.before.buffer))
WriteDue == p_last.before.can_write /\ Len(p_last.before.buffer) >= write_mtu
Increasing(q) == \A i \in 1..(Len(q) - 1) : q[i] < q[i + 1]
RefusedWrite == p_last.op = "write" /\ ~p_last.before.started

\* What C33 says of a write() on a pump that is not started, and of the order.
WriteRefusedWhenStopped ==
    RefusedWrite => /\ p_last.raised = "InvalidOperationError"
                    /\ send_buffer = p_last.before.buffer
                    /\ p_last.chunk = <<>>
QueueOrderKept == Increasing(pump_wire) /\ Increasing(send_buffer)

\* C33 as claimed: in each iteration the first write_mtu bytes leave the
\* buffer and reach the socket exactly when the socket is writable and the
\* buffer holds write_mtu bytes; otherwise the buffer is unchanged.
C33_ChunkSentWhenDue ==
    /\ Step4 => IF WriteDue
                THEN send_buffer = Kept /\ pump_wire = p_last.before.wire \o Removed
                ELSE send_buffer = p_last.before.buffer /\ pump_wire = p_last.before.wire
    /\ QueueOrderKept
    /\ WriteRefusedWhenStopped

\* C33: in each iteration the first write_mtu bytes leave the buffer and are
\* passed to socket.send exactly when the socket is writable and the buffer
\* holds write_mtu bytes, and they reach the socket when send returns; if
\* send raises they are dropped; otherwise the buffer is unchanged.  Bytes
\* reach the socket in the order written, and write() on a pump that is not
\* started raises InvalidOperationError and queues nothing.
C33_ChunkPassedWhenDue ==
    /\ Step4 => IF WriteDue
                THEN /\ send_buffer = Kept /\ p_last.chunk = Removed
                     /\ pump_wire = IF p_last.raised = "none"
                                    THEN p_last.before.wire \o Removed
                                    ELSE p_last.before.wire
                ELSE /\ send_buffer = p_last.before.buffer /\ p_last.chunk = <<>>
                     /\ pump_wire = p_last.before.wire
    /\ QueueOrderKept
    /\ WriteRefusedWhenStopped

C33_Witness ==
    /\ Step4 /\ WriteDue /\ p_last.raised = "none"
    /\ p_last.before.wire = <<1, 2>> /\ p_last.before.buffer = <<3, 4>>
    /\ send_buffer = <<>> /\ pump_wire = <<1, 2, 3, 4>>

NoEvents == p_last.op = "poll" /\ p_last.arg \in {"empty", "hup"}
Idle == /\ p_last.raised = "none" /\ ~worker.fatal
        /\ pump_reports = p_last.before.reports
        /\ worker.pc = "test"

\* An event that is neither EPOLLIN nor EPOLLOUT leaves the iteration idle.
OtherEventIsIdle == (NoEvents /\ p_last.arg = "hup" /\ ~p_last.before.fatal) => Idle

\* C34: when the poll reports the socket neither readable nor writable the
\* iteration is idle: no error is reported, the worker does not become
\* fatal, and the loop goes on to its next test.
C34_NoEventsIsIdle == (NoEvents /\ ~p_last.before.fatal) => Idle

(***************************************************************************)
(* PortAudioSink: start, stop, _data_ready and _stop_portaudio_callback    *)
(* run on the IOLoop thread, _data_required on the PortAudio thread while  *)
(* the stream is active.  The buffer is its length in bytes; time is a     *)
(* clock of ticks and the buffering window is BufferWindow ticks long.     *)
(***************************************************************************)
otherThanSink == <<coreVars, csmVars, mediaVars, pumpVars, sessVars, lateVars>>

frame_size == 2
FrameCounts == {1, 2}
ChunkSizes == {1, 2}

SinkResult(s, out, n, flag, raised, timer) ==
    [sink |-> s, out |-> out, nbytes |-> n, flag |-> flag, raised |-> raised, timer |-> timer]

\* A variant of the hand-out decision that plays real data whenever the buffer
\* holds the requested bytes, whether or not the window is over.
hand_out_eager(s, now, frame_count) ==
    LET req_byte_count == frame_size * frame_count
    IN  IF s.buffer >= req_byte_count
        THEN SinkResult([s EXCEPT !.buffering = FALSE, !.buffer = @ - req_byte_count],
                        "data", req_byte_count, "continue", "none", FALSE)
        ELSE SinkResult([s EXCEPT !.buffering = TRUE, !.buffer_end = now + BufferWindow],
                        "silence", req_byte_count, "continue", "none", FALSE)

\* _data_required from "decide what data to hand PA" on; s._buffering has been
\* refreshed against the clock.
hand_out(s, now, frame_count) ==
    LET req_byte_count == frame_size * frame_count
    IN  IF s.buffering
        THEN SinkResult(s, "silence", req_byte_count, "continue", "none", FALSE)
        ELSE IF s.buffer = -1
        THEN SinkResult(s, "none", 0, "none", "AttributeError", FALSE)
        ELSE IF s.buffer >= req_byte_count
        THEN SinkResult([s EXCEPT !.buffer = @ - req_byte_count],
                        "data", req_byte_count, "continue", "none", FALSE)
        ELSE SinkResult([s EXCEPT !.buffering = TRUE, !.buffer_end = now + BufferWindow],
                        "silence", req_byte_count, "continue", "none", FALSE)

data_required(s, now, frame_count) ==
    IF ~s.started
    THEN SinkResult([s EXCEPT !.stream = "complete"], "silence", frame_size * frame_count,
                    "complete", "none", TRUE)
    ELSE hand_out([s EXCEPT !.buffering = IF @ THEN now < s.buffer_end ELSE FALSE],
                  now, frame_count)

SLast(op, frames, res) ==
    [op |-> op, frames |-> frames, out |-> res.out, nbytes |-> res.nbytes, flag |-> res.flag,
     raised |-> res.raised, before |-> sink, now |-> clock]
SinkDid(op, raised) ==
    SLast(op, 0, SinkResult(sink, "none", 0, "none", raised, FALSE))

SinkLoopFree == sink_cb = "none"

SinkStart ==
    /\ SinkLoopFree
    /\ ~sink.started
    /\ sink_timers < MaxStopTimers
    /\ sink' = [started |-> TRUE, buffering |-> TRUE, buffer_end |-> clock + BufferWindow,
                buffer |-> 0, stream |-> "active"]
    /\ s_last' = SinkDid("start", "none")
    /\ UNCHANGED <<sink_timers, sink_cb, clock, otherThanSink>>

SinkStop ==
    /\ SinkLoopFree
    /\ sink' = [sink EXCEPT !.started = FALSE]
    /\ s_last' = SinkDid("stop", "none")
    /\ UNCHANGED <<sink_timers, sink_cb, clock, otherThanSink>>

SinkDataReady(n) ==
    /\ SinkLoopFree
    /\ sink.buffer + n <= MaxBytes
    /\ IF ~sink.started
       THEN UNCHANGED sink /\ s_last' = SinkDid("ready", "none")
       ELSE IF sink.buffer = -1
       THEN UNCHANGED sink /\ s_last' = SinkDid("ready", "AttributeError")
       ELSE sink' = [sink EXCEPT !.buffer = @ + n] /\ s_last' = SinkDid("ready", "none")
    /\ UNCHANGED <<sink_timers, sink_cb, clock, otherThanSink>>

\* An exception that leaves the callback ends the stream's callbacks.
SinkDataRequired(frame_count) ==
    /\ sink.stream = "active"
    /\ LET res == data_required(sink, clock, frame_count)
       IN  /\ sink' = IF res.raised = "none" THEN res.sink
                      ELSE [res.sink EXCEPT !.stream = "complete"]
           /\ sink_timers' = IF res.timer THEN sink_timers + 1 ELSE sink_timers
           /\ s_last' = SLast("required", frame_count, res)
    /\ UNCHANGED <<sink_cb, clock, otherThanSink>>

\* _stop_portaudio_callback up to the call of stop_stream.
SinkStopClear ==
    /\ SinkLoopFree
    /\ sink_timers > 0
    /\ sink_timers' = sink_timers - 1
    /\ sink_cb' = "closing"
    /\ sink' = [sink EXCEPT !.buffer = -1, !.buffering = FALSE, !.buffer_end = -1]
    /\ s_last' = SinkDid("stop_clear", "none")
    /\ UNCHANGED <<clock, otherThanSink>>

\* stop_stream and close; self._stream is None when an earlier run has closed it.
SinkStopClose ==
    /\ sink_cb = "closing"
    /\ sink_cb' = "none"
    /\ sink' = [sink EXCEPT !.stream = "none"]
    /\ s_last' = SinkDid("stop_close", IF sink.stream = "none" THEN "AttributeError" ELSE "none")
    /\ UNCHANGED <<sink_timers, clock, otherThanSink>>

Tick ==
    /\ clock < MaxClock
    /\ clock' = clock + 1
    /\ UNCHANGED <<sink, sink_timers, sink_cb, s_last, otherThanSink>>

SinkFeed == \E n \in ChunkSizes : SinkDataReady(n)
SinkPlay == \E fc \in FrameCounts : SinkDataRequired(fc)

SinkNext ==
    \/ SinkStart
    \/ SinkStop
    \/ SinkFeed
    \/ SinkPlay
    \/ SinkStopClear
    \/ SinkStopClose
    \/ Tick

InitSink == ChanInit /\ PhoneIdle /\ ReadIdle /\ AuxIdle
SpecSink == InitSink /\ [][SinkNext]_vars

\* The latest operation was a device callback on a started sink that has its buffer.
IsCallback == s_last.op = "required" /\ s_last.before.started /\ s_last.before.buffer >= 0
Requested == frame_size * s_last.frames
\* The buffering window was still running when the callback looked at the clock.
WindowOpen == s_last.before.buffering /\ s_last.now < s_last.before.buffer_end
Silence ==
    /\ s_last.out = "silence" /\ s_last.nbytes = Requested /\ s_last.flag = "continue"
    /\ s_last.raised = "none" /\ sink.buffer = s_last.before.buffer /\ sink.buffering
RealData ==
    /\ s_last.out = "data" /\ s_last.nbytes = Requested /\ s_last.flag = "continue"
    /\ s_last.raised = "none" /\ sink.buffer = s_last.before.buffer - Requested
    /\ ~sink.buffering
StartsBuffering ==
    s_last.op = "start" =>
        sink.buffering /\ sink.buffer = 0 /\ sink.buffer_end = s_last.now + BufferWindow

\* A callback played real data on leaving a buffering window that was over.
SinkResumed == IsCallback /\ s_last.before.buffering /\ RealData

StartedCallback == s_last.op = "required" /\ s_last.before.started
ExactBlock ==
    /\ s_last.raised = "none"
    /\ s_last.out \in {"data", "silence"}
    /\ s_last.nbytes = s_last.frames * frame_size

\* While the session's buffer is in place every callback returns a whole block.
ExactBlockWithBuffer == (StartedCallback /\ s_last.before.buffer # -1) => ExactBlock

\* A callback of a started sink whose buffer the cleanup has just cleared.
CallbackAfterClear ==
    /\ StartedCallback /\ s_last.before.buffer = -1 /\ ~s_last.before.buffering
    /\ s_last.raised = "AttributeError"

\* C35: every device callback of a started sink returns exactly
\* frame_count * frame_size bytes, real data or silence, and raises nothing.
C35_CallbackReturnsExactBlock == StartedCallback => ExactBlock

CleanupOfNewSession == s_last.op \in {"stop_clear", "stop_close"} /\ s_last.before.started

\* C40: when start() follows stop() before the deferred cleanup has run, the
\* cleanup leaves the new session's buffer and stream in place, and data
\* that arrives for the started sink is buffered without error.
C40_CleanupSparesNewSession ==
    /\ CleanupOfNewSession =>
           /\ sink.buffer = s_last.before.buffer
           /\ sink.stream = s_last.before.stream
    /\ (s_last.op = "ready" /\ s_last.before.started) => s_last.raised = "none"

\* Without a restart the cleanup finds the sink stopped.
CleanupOfStoppedSession ==
    s_last.op = "stop_clear" /\ ~s_last.before.started /\ sink.buffer = -1

(***************************************************************************)
(* Sessions: the ProfileManager's NewConnection handler, and sessions      *)
(* constructed with the parameters SerialPortConnection.__init__ declares. *)
(* A session is one SerialPortConnection with its RemotePhone; its         *)
(* handshake is followed up to the reply of its first step.  A session     *)
(* keeps the operations applied to it in log.                              *)
(***************************************************************************)
otherThanSess == <<coreVars, csmVars, mediaVars, pumpVars, sinkVars, lateVars>>

\* The instance attributes SerialPortConnection.__init__ and RemotePhone.__init__ set.
FreshSession(via) ==
    [via |-> via, open |-> TRUE, indmap |-> IndmapUnset, reply_q |-> EmptyMap,
     remainder |-> <<>>, ag_features |-> PyNone, handshake_completed |-> FALSE,
     nfut |-> 0, log |-> <<>>]

\* Binding a call's keyword arguments to def __init__(self, fd, async_reply_delay, io_loop).
InitParams == {"fd", "async_reply_delay", "io_loop"}
ConnectKwargs == {"socket", "device_path", "async_reply_delay", "io_loop"}
SerialPortConnection_init(kwargs, via) ==
    IF kwargs = InitParams THEN Return(FreshSession(via)) ELSE Raise("TypeError")

SessCodes == {"OK", "BRSF", "CIND"}
SessMessages ==
    { Text("OK"), Coded("BRSF", FALSE, <<"3">>),
      Coded("CIND", TRUE, <<"call", "battchg">>), Coded("CIND", FALSE, <<"0", "3">>),
      Coded("CIEV", FALSE, <<"1", "1">>) }
SessChunks == { <<"A">>, <<"A", "CR", "LF", "A", "CR">> }
SessOps ==
    {[op |-> "send", code |-> c] : c \in SessCodes}
    \cup {[op |-> "recv", msg |-> m] : m \in SessMessages}
    \cup {[op |-> "read", data |-> d] : d \in SessChunks}

\* One operation on a session: send_message with an awaited code, _on_message
\* (the reply of the handshake's AT+BRSF becomes _ag_features), or _data_ready.
session_apply(s, o) ==
    IF o.op = "send"
    THEN [s EXCEPT !.reply_q = QAppend(s.reply_q, o.code,
                                       [future |-> s.nfut + 1, handle |-> s.nfut + 1]),
                   !.nfut = @ + 1]
    ELSE IF o.op = "recv"
    THEN LET r == on_message(o.msg, s.reply_q, s.indmap) IN
         [s EXCEPT !.reply_q = r.q, !.indmap = r.im,
                   !.ag_features = IF o.msg.code = "BRSF" /\ r.settle = "result"
                                   THEN r.value ELSE @]
    ELSE [s EXCEPT !.remainder = data_ready(s.remainder, o.data).remainder]

\* The state a session with this history has when nothing else has touched it.
RECURSIVE Replay(_, _)
Replay(via, log) ==
    IF log = <<>> THEN FreshSession(via)
    ELSE LET n == Len(log)
             before == Replay(via, SubSeq(log, 1, n - 1))
         IN [session_apply(before, log[n]) EXCEPT !.log = log]

AllClosed == \A i \in DOMAIN sessions : ~sessions[i].open

\* ProfileManager._profile_on_connect
ProfileConnect ==
    /\ profile_connects < MaxConnects
    /\ profile_connects' = profile_connects + 1
    /\ LET r == SerialPortConnection_init(ConnectKwargs, "profile") IN
       IF r.raised # "none"
       THEN /\ connect_errors' = connect_errors + 1
            /\ UNCHANGED <<sessions, profile_events>>
       ELSE /\ sessions' = Append(sessions, r.ret)
            /\ profile_events' = Append(profile_events,
                                        [connected |-> TRUE, phone |-> Len(sessions) + 1])
            /\ UNCHANGED connect_errors
    /\ UNCHANGED otherThanSess

\* ProfileManager._profile_on_disconnect
ProfileDisconnect ==
    /\ Len(profile_events) < profile_connects
    /\ profile_events' = Append(profile_events, [connected |-> FALSE, phone |-> 0])
    /\ UNCHANGED <<sessions, profile_connects, connect_errors, otherThanSess>>

\* A session constructed with the declared parameters, once the one before is closed.
NewSession ==
    /\ Len(sessions) < MaxSessions
    /\ AllClosed
    /\ sessions' = Append(sessions, SerialPortConnection_init(InitParams, "direct").ret)
    /\ UNCHANGED <<profile_connects, connect_errors, profile_events, otherThanSess>>

SessApply(i, o) ==
    /\ sessions[i].open
    /\ Len(sessions[i].log) < MaxSessLog
    /\ sessions' = [sessions EXCEPT
                      ![i] = [session_apply(@, o) EXCEPT !.log = Append(@, o)]]
    /\ UNCHANGED <<profile_connects, connect_errors, profile_events, otherThanSess>>

SessClose(i) ==
    /\ sessions[i].open
    /\ sessions' = [sessions EXCEPT ![i].open = FALSE]
    /\ UNCHANGED <<profile_connects, connect_errors, profile_events, otherThanSess>>

SessWork == \E i \in DOMAIN sessions : \E o \in SessOps : SessApply(i, o)
SessEnd == \E i \in DOMAIN sessions : SessClose(i)

SessNext ==
    \/ ProfileConnect
    \/ ProfileDisconnect
    \/ NewSession
    \/ SessWork
    \/ SessEnd

InitSess == ChanInit /\ PhoneIdle /\ ReadIdle /\ AuxIdle
SpecSess == InitSess /\ [][SessNext]_vars

\* Every session is in the state its own history gives it.
SessionsIsolated ==
    \A i \in DOMAIN sessions :
        [sessions[i] EXCEPT !.open = TRUE] = Replay(sessions[i].via, sessions[i].log)

\* A second session with no history next to a first one that has a table, a queued
\* reply, left-over bytes and a feature map.
TwoSessions ==
    /\ Len(sessions) = 2
    /\ sessions[1].indmap.set /\ sessions[1].remainder # <<>>
    /\ sessions[2].log = <<>> /\ sessions[2].open
    /\ sessions[2].indmap = IndmapUnset /\ sessions[2].reply_q = EmptyMap
    /\ sessions[2].remainder = <<>> /\ sessions[2].ag_features = PyNone
    /\ ~sessions[2].handshake_completed

ProfileSessions == {i \in DOMAIN sessions : sessions[i].via = "profile"}

\* C20: every connection the profile has handed over has its own session, and
\* the indicator table, reply queue, remainder, feature map and handshake flag
\* of each session are those its own message history gives it, whatever the
\* sessions before it have processed.
C20_SessionsIndependent ==
    /\ Cardinality(ProfileSessions) = profile_connects
    /\ SessionsIsolated

(***************************************************************************)
(* Further properties of the channel on its own (SpecChannel)              *)
(***************************************************************************)
\* C21: a send_message whose write fails raises ConnectionError and leaves
\* the futures, the timers, the reply queue, what has been written and the
\* stream as they were: no future and no timer for that send, pending
\* futures untouched, no reconnect.
C21_FailedSendTracksNothing ==
    [][(last'.op = "send" /\ last'.raised = "ConnectionError")
         => UNCHANGED <<futures, timers, reply_q, sent, stream>>]_vars

C21_Witness ==
    /\ last.op = "send" /\ last.raised = "ConnectionError" /\ last.arg.kind = "OK"
    /\ stream # "open"
    /\ Len(futures) = 1 /\ futures[1].state = "pending" /\ timers = {1}

(***************************************************************************)
(* Errors reported by the AG.  The final result codes of the AG are        *)
(* "ERROR" and "+CME ERROR: <n>"; msg[1:].split(":", 1) gives the latter   *)
(* the code "CME ERROR".  A message "+CME: <n>" is the one the shortcut    *)
(* in _on_message compares for.                                            *)
(***************************************************************************)
CmeCodes == {"30", "9"}
ErrMessages ==
    {Text("ERROR")}
    \cup {Coded("CME ERROR", FALSE, <<c>>) : c \in CmeCodes}
    \cup {Coded("CME", FALSE, <<c>>) : c \in CmeCodes}
    \cup {Text("OK"), Coded("BRSF", FALSE, <<"3">>)}

ErrSend == \E code \in AwaitCodes : ClientSend(code)
ErrReceive == \E msg \in ErrMessages : ChanReceive(msg)

ErrNext ==
    \/ ErrSend
    \/ ErrReceive
    \/ TimerFire

InitErr == ChanInit /\ PhoneIdle /\ ReadIdle /\ AuxIdle
SpecErr == InitErr /\ [][ErrNext]_vars

IsPlainError(msg) == msg.kind = "ERROR"
IsExtendedError(msg) == msg.kind = "text" /\ msg.code = "CME ERROR"
IsCmeShortcut(msg) == msg.kind = "text" /\ msg.code = "CME"

\* What a handler that treats the message as a non-fatal error leaves behind.
ReportedOnce ==
    /\ last'.raised = "none"
    /\ Len(last'.callbacks) = 1 /\ last'.callbacks[1].cb = "on_error"
    /\ stream' = "open"
    /\ UNCHANGED <<futures, timers, reply_q>>

\* "ERROR" and "+CME: <n>" are reported once and change nothing else.
PlainErrorNonFatal ==
    [][(last'.op = "recv" /\ (IsPlainError(last'.arg) \/ IsCmeShortcut(last'.arg)))
         => ReportedOnce]_vars

\* An extended error has arrived while a future was pending.
ExtendedErrorSeen ==
    /\ last.op = "recv" /\ IsExtendedError(last.arg)
    /\ \E f \in DOMAIN futures : futures[f].state = "pending"

\* C22: an ERROR or an extended-error message from the AG is reported through
\* on_error exactly once, leaves the channel open and settles no future, so
\* that what follows is dispatched as before.
C22_ErrorsNonFatal ==
    [][(last'.op = "recv" /\ (IsPlainError(last'.arg) \/ IsExtendedError(last'.arg)))
         => ReportedOnce]_vars

CmeNumber == ("30" :> 30) @@ ("9" :> 9)
IsCmeError(msg) == IsExtendedError(msg) \/ IsCmeShortcut(msg)
\* The callback data the table gives for the code c.
CmeExpected(c) ==
    IF CmeNumber[c] \in DOMAIN CME_ERROR_MAP
    THEN {PyStr(CME_ERROR_MAP[CmeNumber[c]])}
    ELSE {PyInt(CmeNumber[c]), PyStr(c)}

\* A code outside the table, sent as "+CME: <n>", reaches on_error as it came.
UnmappedPassesThrough ==
    (last.op = "recv" /\ IsCmeShortcut(last.arg)
        /\ CmeNumber[last.arg.params[1]] \notin DOMAIN CME_ERROR_MAP)
      => /\ Len(last.callbacks) = 1
         /\ last.callbacks[1].data \in CmeExpected(last.arg.params[1])

\* C23: a CME error with code c reaches the error callback as CME_ERROR_MAP[c]
\* when c is in the table and as the code itself when it is not.
C23_CmeMapped ==
    (last.op = "recv" /\ IsCmeError(last.arg))
      => /\ Len(last.callbacks) = 1
         /\ last.callbacks[1].cb = "on_error"
         /\ last.callbacks[1].data \in CmeExpected(last.arg.params[1])

\* The timer that ran in the step just taken.
FiredTimer == expired' \ expired

\* C27: with two sends outstanding for one reply code, the timer of the first
\* send fails the first send's own future with TimeoutError and removes its
\* entry, and the second send's future stays pending.
C27_TimerFailsOwnFuture ==
    [][(FiredTimer # {} /\ Len(last'.before.q) = 2)
         => /\ last'.settled = FiredTimer
            /\ \A f \in FiredTimer : TimedOut(f)' /\ ~InQueue(f)'
            /\ \A f \in DOMAIN futures \ FiredTimer : futures'[f] = futures[f]]_vars

(***************************************************************************)
(* Order of the connection-state events (SpecPhone)                        *)
(***************************************************************************)
\* The handshake coroutine ran after the close callback had raised its event.
ClosedBeforeHandshake ==
    /\ connected_events = <<FALSE>> /\ stream = "closed"
    /\ hs.pc = "crashed" /\ last.op = "handshake"

\* C39: on_connected_changed(connected=True) is raised at most once,
\* connected=False is raised at most once, and connected=True is never
\* raised after connected=False.
C39_ConnectedEventsOrdered ==
    /\ TimesRaised(TRUE) <= 1
    /\ TimesRaised(FALSE) <= 1
    /\ \A i, j \in DOMAIN connected_events :
          (connected_events[i] = FALSE /\ connected_events[j] = TRUE) => j < i

(***************************************************************************)
(* Timers and queued entries of the channel (SpecChannel)                  *)
(***************************************************************************)
\* The timer handles of the entries queued for a reply code, and its live timers.
QueuedHandlesOf(c) == {QGet(reply_q, c)[i].handle : i \in DOMAIN QGet(reply_q, c)}
LiveTimersOf(c) == {h \in timers : futures[h].code = c}

\* A reply cancels the timer of the entry it removes.
ReplyCancelsOwnTimer ==
    [][(last'.op = "recv" /\ last'.settled # {})
         => /\ last'.settled \subseteq timers \cup expired
            /\ last'.settled \cap timers' = {}]_vars

\* No future is settled twice.
SettledAtMostOnce == \A f \in DOMAIN futures : futures[f].settled <= 1

\* A reply has removed an entry whose timer was still to come.
ReplyBeatTimer ==
    /\ last.op = "recv" /\ last.settled # {} /\ last.settled \cap expired = {}
    /\ timers # {}

\* C37: live timers and queued entries correspond one to one per reply code,
\* so a timeout callback never runs for a code whose list is empty and no
\* queued future is without a live timer.
C37_TimersMatchEntries ==
    /\ \A c \in AwaitCodes : LiveTimersOf(c) = QueuedHandlesOf(c)
    /\ last.op = "timeout" => last.raised = "none"

(***************************************************************************)
(* The order of the handshake (SpecPhone)                                  *)
(***************************************************************************)
\* The commands of _do_handshake in program order, for an AG with or without
\* codec negotiation and 3-way calling.
HandshakeOrder(codec_neg, three_way) ==
    <<"AT+BRSF=518">>
    \o (IF codec_neg THEN <<"AT+BAC=1">> ELSE <<>>)
    \o <<"AT+CIND=?", "AT+CIND?", "AT+CMER=3,0,0,1">>
    \o (IF three_way THEN <<"AT+CHLD=?", "AT+CCWA=1">> ELSE <<>>)
    \o <<"AT+CMEE=1", "AT+CLIP=1", "AT+COPS=3,0", "AT+COPS?">>

IsPrefix(s, t) == Len(s) <= Len(t) /\ \A i \in DOMAIN s : s[i] = t[i]
Pending(code) == {f \in DOMAIN futures : futures[f].code = code /\ futures[f].state = "pending"}
Resumed(f) == ~(hs.pc = "waiting" /\ hs.fut = f)

\* What has been sent is the beginning of one of the four orders.
SentInOrder ==
    ~handshake_completed =>
        \E codec_neg \in BOOLEAN : \E three_way \in BOOLEAN :
            IsPrefix(sent, HandshakeOrder(codec_neg, three_way))

\* At most one future per reply code is pending.
OneFuturePerCode == \A code \in AwaitCodes \cup {"CIND", "CHLD"} : Cardinality(Pending(code)) <= 1

\* A command is sent only when every earlier awaited step has its reply.
SentAfterReply ==
    \A f \in DOMAIN futures : futures[f].state = "pending" => Len(sent) = f

\* C28: the handshake sends its commands in the fixed order, each awaited
\* command after the reply to the one before it: what was sent is the
\* beginning of the order, at most one future per reply code is pending, and
\* once the coroutine has resumed with a step's reply on an open stream the
\* command that follows that step has been sent.
C28_HandshakeSequential ==
    /\ SentInOrder
    /\ OneFuturePerCode
    /\ SentAfterReply
    /\ \A f \in DOMAIN futures :
         (futures[f].state = "result" /\ Resumed(f) /\ stream = "open") => Len(sent) > f

Reports(feats, key) == feats.t = "dict" /\ key \in DOMAIN feats.v /\ feats.v[key]
FeaturesDecoded == Len(futures) >= 1 /\ futures[1].state = "result" /\ Resumed(1)
WasSent(cmd) == \E i \in DOMAIN sent : sent[i] = cmd

\* The codec is CVSD once the features have been decoded.
CodecIsCvsd == FeaturesDecoded => codec = PyStr("CVSD")

\* AT+BAC=1 is sent only to an AG whose decoded features hold CODEC_NEG.
BacOnlyWithCodecNeg == WasSent("AT+BAC=1") => Reports(ag_features, "CODEC_NEG")

\* C29: in a handshake that has ended with every awaited step answered in
\* time on an open stream, AT+CHLD=? and AT+CCWA=1 were sent if and only if
\* the decoded features report 3-way calling, AT+BAC=1 was sent if and only
\* if they report codec negotiation, and the codec is CVSD.
C29_OptionalStepsFollowFeatures ==
    ( /\ HandshakeEnded /\ stream = "open" /\ expired = {}
      /\ FeaturesDecoded /\ \A f \in DOMAIN futures : futures[f].state = "result" )
    => /\ (WasSent("AT+CHLD=?") /\ WasSent("AT+CCWA=1")) <=> Reports(ag_features, "3WAY")
       /\ WasSent("AT+BAC=1") <=> Reports(ag_features, "CODEC_NEG")
       /\ codec = PyStr("CVSD")

(***************************************************************************)
(* Indicator messages and the call state machine (SpecPhone)               *)
(***************************************************************************)
IsIndicator(msg) ==
    /\ msg.kind = "text" /\ msg.colon
    /\ msg.code = "CIEV" \/ (msg.code = "CIND" /\ ~msg.paren)
IndicatorReceived == last.op = "recv" /\ IsIndicator(last.arg)

\* _connection_message ran for the message and reached self._csm.transition.
FedToStateMachine == DeliveredTo("on_message", last.arg.code) /\ last.raised = "none"

\* An indicator message whose handler returned and that settled no future is fed.
FedWhenUnawaited ==
    (IndicatorReceived /\ last.raised = "none" /\ last.settled = {}) => FedToStateMachine

\* On the channel, a reply that settles an awaited future makes no callback.
ConsumedReplySkipsCallback ==
    /\ IndicatorReceived /\ last.raised = "none"
    /\ last.settled # {} /\ last.callbacks = <<>>

\* C30: every +CIND value line and every +CIEV update received after start()
\* is fed to the call state machine, in the step in which it arrived.
C30_IndicatorsFed == IndicatorReceived => FedToStateMachine

(***************************************************************************)
(* PhonebookClient.  The Obex daemon is the environment: it moves a        *)
(* transfer through its statuses and emits a PropertiesChanged signal for  *)
(* each change; signals are delivered later, in order.  A transfer's path  *)
(* is its index in obex_transfers; its temporary file has the same number. *)
(***************************************************************************)
otherThanPb == <<coreVars, csmVars, mediaVars, pumpVars, sinkVars, sessVars, adVars, moreVars>>

\* org.bluez.obex.Transfer1 Status: the statuses that can follow a status.
NextStatus(st) ==
    CASE st = "queued" -> {"active", "error"}
      [] st = "active" -> {"complete", "error", "suspended"}
      [] st = "suspended" -> {"active", "error"}
      [] OTHER -> {}

Signal(path, has_status, st) ==
    [path |-> path, has_status |-> has_status, status |-> st]

PbResult(tr, file, callbacks) == [transfer |-> tr, file |-> file, callbacks |-> callbacks]

\* A variant of _properties_changed that does not compare the signal's path.
properties_changed_any_path(tr, file, sig, file_ok) ==
    IF tr = 0 \/ ~sig.has_status \/ sig.status \in {"queued", "active"}
    THEN PbResult(tr, file, <<>>)
    ELSE PbResult(0, 0,
             IF sig.status = "error" THEN <<"on_transfer_error">>
             ELSE IF sig.status = "complete"
             THEN (IF file_ok THEN <<"on_transfer_complete">> ELSE <<"on_transfer_error">>)
             ELSE <<>>)

\* _properties_changed(interface, properties, invalidated, path); file_ok is
\* whether the temporary file could be read.
properties_changed(tr, file, sig, file_ok) ==
    IF tr = 0 THEN PbResult(tr, file, <<>>)
    ELSE IF tr # sig.path THEN PbResult(tr, file, <<>>)
    ELSE IF ~sig.has_status THEN PbResult(tr, file, <<>>)
    ELSE IF sig.status \in {"queued", "active"} THEN PbResult(tr, file, <<>>)
    ELSE PbResult(0, 0,
             IF sig.status = "error" THEN <<"on_transfer_error">>
             ELSE IF sig.status = "complete"
             THEN (IF file_ok THEN <<"on_transfer_complete">> ELSE <<"on_transfer_error">>)
             ELSE <<>>)

PbSnapshot == [transfer |-> pb_transfer, file |-> pb_file, ntransfers |-> Len(obex_transfers)]
PbLast(op, path, st, called, raised, callbacks) ==
    [op |-> op, path |-> path, status |-> st, called |-> called, raised |-> raised,
     callbacks |-> callbacks, before |-> PbSnapshot]

\* get_all: PullAll starts a transfer, or raises.
PbGetAll(pull_ok) ==
    /\ Len(obex_transfers) < MaxTransfers
    /\ IF pb_transfer # 0
       THEN /\ pull_ok
            /\ UNCHANGED <<pb_transfer, pb_file, obex_transfers>>
            /\ pb_last' = PbLast("get_all", 0, "", "none", "none", <<>>)
       ELSE IF ~pull_ok
       THEN /\ UNCHANGED <<pb_transfer, pb_file, obex_transfers>>
            /\ pb_last' = PbLast("get_all", 0, "", "PullAll", "DBusError", <<>>)
       ELSE LET path == Len(obex_transfers) + 1 IN
            /\ obex_transfers' = Append(obex_transfers,
                   [status |-> "queued", aborted |-> FALSE, reports |-> 0])
            /\ pb_transfer' = path /\ pb_file' = path
            /\ pb_last' = PbLast("get_all", path, "", "PullAll", "none", <<>>)
    /\ UNCHANGED <<obex_signals, otherThanPb>>

PbSelect ==
    /\ pb_last' = PbLast("select", 0, "", IF pb_transfer # 0 THEN "none" ELSE "Select",
                         "none", <<>>)
    /\ UNCHANGED <<pb_transfer, pb_file, obex_transfers, obex_signals, otherThanPb>>

PbAbort ==
    /\ pb_transfer' = 0 /\ pb_file' = 0
    /\ obex_transfers' = IF pb_transfer = 0 THEN obex_transfers
                         ELSE [obex_transfers EXCEPT ![pb_transfer].aborted = TRUE]
    /\ pb_last' = PbLast("abort", pb_transfer, "", "none", "none", <<>>)
    /\ UNCHANGED <<obex_signals, otherThanPb>>

\* The daemon changes a transfer's status and emits the signal.
ObexChange(t, st) ==
    /\ Len(obex_signals) < MaxSignals
    /\ st \in NextStatus(obex_transfers[t].status)
    /\ obex_transfers' = [obex_transfers EXCEPT ![t].status = st]
    /\ obex_signals' = Append(obex_signals, Signal(t, TRUE, st))
    /\ UNCHANGED <<pb_transfer, pb_file, pb_last, otherThanPb>>

\* A change of another property (Transferred) of a running transfer.
ObexProgress(t) ==
    /\ Len(obex_signals) < MaxSignals
    /\ obex_transfers[t].status = "active"
    /\ obex_signals' = Append(obex_signals, Signal(t, FALSE, ""))
    /\ UNCHANGED <<pb_transfer, pb_file, obex_transfers, pb_last, otherThanPb>>

\* The main loop delivers the oldest signal to _properties_changed.
PbSignal(file_ok) ==
    /\ obex_signals # <<>>
    /\ LET sig == Head(obex_signals)
           r == properties_changed(pb_transfer, pb_file, sig, file_ok) IN
       /\ pb_transfer' = r.transfer /\ pb_file' = r.file
       /\ obex_transfers' =
              IF pb_transfer = 0 THEN obex_transfers
              ELSE [obex_transfers EXCEPT ![pb_transfer].reports = @ + Len(r.callbacks)]
       /\ pb_last' = PbLast("signal", sig.path, sig.status, "none", "none", r.callbacks)
    /\ obex_signals' = Tail(obex_signals)
    /\ UNCHANGED otherThanPb

PbPull == \E ok \in BOOLEAN : PbGetAll(ok)
ObexChanges == \E t \in DOMAIN obex_transfers : \E st \in NextStatus(obex_transfers[t].status) : ObexChange(t, st)
ObexProgresses == \E t \in DOMAIN obex_transfers : ObexProgress(t)
PbSignals == \E ok \in BOOLEAN : PbSignal(ok)

PbNext ==
    \/ PbPull
    \/ PbSelect
    \/ PbAbort
    \/ ObexChanges
    \/ ObexProgresses
    \/ PbSignals

InitPb == ChanInit /\ PhoneIdle /\ ReadIdle /\ AuxIdle
SpecPb == InitPb /\ [][PbNext]_vars

Busy == pb_last.before.transfer # 0
Finished == pb_last.status \in {"complete", "error"}
ForTracked == pb_last.op = "signal" /\ Busy /\ pb_last.path = pb_last.before.transfer

\* C24: while a transfer is tracked get_all and select do nothing; a signal
\* that reports complete or error for the tracked transfer clears it and
\* raises exactly one of on_transfer_complete / on_transfer_error; no
\* transfer is reported twice, an aborted transfer is never reported, and a
\* signal for any other transfer raises nothing and leaves the tracked one.
C24_OneTransferReportedOnce ==
    /\ (pb_last.op \in {"get_all", "select"} /\ Busy)
         => /\ pb_last.called = "none"
            /\ PbSnapshot = pb_last.before
    /\ (ForTracked /\ Finished)
         => /\ pb_transfer = 0 /\ pb_file = 0
            /\ Len(pb_last.callbacks) = 1
            /\ pb_last.status = "error" => pb_last.callbacks = <<"on_transfer_error">>
    /\ (pb_last.op = "signal" /\ ~ForTracked)
         => /\ pb_last.callbacks = <<>>
            /\ PbSnapshot = pb_last.before
    /\ \A t \in DOMAIN obex_transfers :
         /\ obex_transfers[t].reports <= 1
         /\ obex_transfers[t].aborted => obex_transfers[t].reports = 0

C24_Witness ==
    /\ Len(obex_transfers) = 2
    /\ obex_transfers[1].aborted /\ obex_transfers[1].status = "complete"
    /\ pb_last.op = "signal" /\ pb_last.path = 1 /\ pb_last.status = "complete"
    /\ pb_transfer = 2

(***************************************************************************)
(* BaseAdapter.  Bluez is the environment: find_adapter returns no         *)
(* adapter, raises, or returns the proxy of one of the host's adapters,    *)
(* and a change of an adapter's Powered property is signalled to every     *)
(* live subscription on that adapter.  The IOLoop runs the scheduled       *)
(* searches in any order (add_callback and call_later entries mix).        *)
(***************************************************************************)
otherThanAd == <<coreVars, csmVars, mediaVars, pumpVars, sinkVars, sessVars, pbVars, moreVars>>

Address(a) == IF a = 1 THEN "00:11:22:33:44:01" ELSE "00:11:22:33:44:02"
Path(a) == IF a = 1 THEN "/org/bluez/hci0" ELSE "/org/bluez/hci1"

AdLast(op, scheduled, stale, found, raised) ==
    [op |-> op, before |-> adapter, scheduled |-> scheduled, stale |-> stale,
     found |-> found, raised |-> raised]

RemoveAt(q, i) == [k \in 1..(Len(q) - 1) |-> IF k < i THEN q[k] ELSE q[k + 1]]

\* stop(), lines 69-79, for a connected adapter: _address is cleared before
\* it is copied to _last_address.
stop_connection(ad) ==
    [ad EXCEPT !.started = FALSE, !.connected = FALSE,
               !.address = "None", !.last_address = "None",
               !.last_path = ad.path, !.path = "None"]

\* _properties_changed, lines 214-221: the adapter was powered off.
powered_off(ad) ==
    [ad EXCEPT !.connected = FALSE,
               !.last_address = ad.address, !.address = "None",
               !.last_path = ad.path, !.path = "None"]

AdStart ==
    /\ Len(ad_pending) < MaxPending
    /\ IF adapter.started
       THEN /\ UNCHANGED <<adapter, ad_pending>>
            /\ ad_last' = AdLast("start", 0, FALSE, 0, "none")
       ELSE /\ adapter' = [adapter EXCEPT !.started = TRUE]
            /\ ad_pending' = Append(ad_pending, ad_stops)
            /\ ad_last' = AdLast("start", 1, FALSE, 0, "none")
    /\ UNCHANGED <<ad_sub, ad_leaked, ad_stops, hw_powered, otherThanAd>>

AdStop ==
    /\ ad_stops < MaxStops
    /\ IF ~adapter.started
       THEN /\ UNCHANGED <<adapter, ad_sub, ad_stops>>
       ELSE /\ adapter' = IF adapter.connected THEN stop_connection(adapter)
                          ELSE [adapter EXCEPT !.started = FALSE]
            /\ ad_sub' = 0
            /\ ad_stops' = ad_stops + 1
    /\ ad_last' = AdLast("stop", 0, FALSE, 0, "none")
    /\ UNCHANGED <<ad_leaked, ad_pending, hw_powered, otherThanAd>>

\* A scheduled _find_suitable_adapter runs; found is 0 when find_adapter
\* returned None, else the adapter it returned.
AdSearch(i, found, find_ok) ==
    LET rest == RemoveAt(ad_pending, i)
        stale == ad_pending[i] < ad_stops IN
    /\ IF ~adapter.started
       THEN /\ UNCHANGED <<adapter, ad_sub, ad_leaked>>
            /\ ad_pending' = rest
            /\ ad_last' = AdLast("search", 0, stale, 0, "none")
       ELSE IF ~find_ok \/ found = 0
       THEN /\ UNCHANGED <<adapter, ad_sub, ad_leaked>>
            /\ ad_pending' = IF adapter.connected THEN rest ELSE Append(rest, ad_stops)
            /\ ad_last' = AdLast("search", IF adapter.connected THEN 0 ELSE 1, stale, 0,
                                 IF find_ok THEN "none" ELSE "caught")
       ELSE /\ adapter' = [adapter EXCEPT !.address = Address(found),
                                          !.connected = hw_powered[found],
                                          !.path = Path(found)]
            /\ ad_sub' = found
            /\ ad_leaked' = IF ad_sub = 0 THEN ad_leaked ELSE ad_leaked \cup {ad_sub}
            /\ ad_pending' = IF hw_powered[found] THEN rest ELSE Append(rest, ad_stops)
            /\ ad_last' = AdLast("search", IF hw_powered[found] THEN 0 ELSE 1, stale,
                                 found, "none")
    /\ UNCHANGED <<ad_stops, hw_powered, otherThanAd>>

\* An adapter's Powered property changes; _properties_changed runs if a
\* subscription on that adapter is alive.
HwPower(a, on) ==
    /\ hw_powered[a] # on
    /\ hw_powered' = [hw_powered EXCEPT ![a] = on]
    /\ IF a # ad_sub /\ a \notin ad_leaked
       THEN UNCHANGED <<adapter, ad_sub, ad_pending, ad_last>>
       ELSE IF ~adapter.started \/ Path(a) # adapter.path \/ on
       THEN /\ UNCHANGED <<adapter, ad_sub, ad_pending>>
            /\ ad_last' = AdLast("signal", 0, FALSE, a, "none")
       ELSE IF ad_sub = 0
       THEN /\ UNCHANGED <<adapter, ad_sub, ad_pending>>
            /\ ad_last' = AdLast("signal", 0, FALSE, a, "AttributeError")
       ELSE /\ Len(ad_pending) < MaxPending
            /\ adapter' = powered_off(adapter)
            /\ ad_sub' = 0
            /\ ad_pending' = Append(ad_pending, ad_stops)
            /\ ad_last' = AdLast("signal", 1, FALSE, a, "none")
    /\ UNCHANGED <<ad_leaked, ad_stops, otherThanAd>>

AdSearches ==
    \E i \in DOMAIN ad_pending : \E found \in Adapters \cup {0} : \E find_ok \in BOOLEAN :
        AdSearch(i, found, find_ok)
HwPowers == \E a \in Adapters : \E on \in BOOLEAN : HwPower(a, on)

AdNext ==
    \/ AdStart
    \/ AdStop
    \/ AdSearches
    \/ HwPowers

InitAd == ChanInit /\ PhoneIdle /\ ReadIdle /\ AuxIdle
SpecAd == InitAd /\ [][AdNext]_vars

SearchFired == ad_last.op = "search"
SearchDidNothing ==
    /\ adapter = ad_last.before
    /\ ad_last.scheduled = 0 /\ ad_last.found = 0

\* While started and not connected a search is pending.
SearchAlwaysPending == (adapter.started /\ ~adapter.connected) => ad_pending # <<>>

\* No operation that leaves the adapter connected schedules a search.
ConnectedSchedulesNothing == adapter.connected => ad_last.scheduled = 0

\* A search that fires while the adapter is stopped changes nothing.
StoppedSearchInert == (SearchFired /\ ~ad_last.before.started) => SearchDidNothing

\* A search scheduled before a stop() runs in full once start() was called again.
RevivedSearch ==
    /\ SearchFired /\ ad_last.stale /\ ad_last.before.started
    /\ ad_last.found # 0

\* C25: while started and not connected a search is pending; an operation
\* that leaves the adapter connected schedules no search; a search that was
\* scheduled before a stop() does nothing and schedules nothing when it fires.
C25_SearchPendingUntilConnected ==
    /\ SearchAlwaysPending
    /\ ConnectedSchedulesNothing
    /\ (SearchFired /\ ad_last.stale) => SearchDidNothing

ConnectionEnded ==
    /\ ad_last.op \in {"stop", "signal"}
    /\ ad_last.before.connected /\ ~adapter.connected
Remembered ==
    /\ adapter.last_address = ad_last.before.address
    /\ adapter.last_path = ad_last.before.path
    /\ adapter.address = "None" /\ adapter.path = "None"

\* When a power-off ends the connection the address and path are remembered.
PowerOffRemembers == (ConnectionEnded /\ ad_last.op = "signal") => Remembered
PowerOffSeen == ConnectionEnded /\ ad_last.op = "signal"

\* C26: after a connection has ended, by power-off or by stop(), last_address
\* and last_path are the address and path the adapter had while connected,
\* and address and path are None.
C26_LastAddressRemembered == ConnectionEnded => Remembered

(***************************************************************************)
(* The feature decoder on its own: the AG answers AT+BRSF with any bitmap  *)
(* of up to ten bits and _handle_brsf decodes it.                          *)
(***************************************************************************)
otherThanDec == <<coreVars, csmVars, mediaVars, pumpVars, sinkVars, sessVars, pbVars, adVars,
                  bufVars>>

BrsfDecode(b) ==
    /\ brsf_in' = b
    /\ brsf_out' = brsf_features(b)
    /\ UNCHANGED otherThanDec

DecNext == \E b \in 0..MaxBitmap : BrsfDecode(b)
InitDec == ChanInit /\ PhoneIdle /\ ReadIdle /\ AuxIdle
SpecDec == InitDec /\ [][DecNext]_vars

\* The bit of each feature in the AG's bitmap: the six masks of _handle_brsf,
\* and bit 9 of the Hands-Free Profile for codec negotiation.
FeatureMask ==
    ("3WAY" :> 1) @@ ("NREC" :> 2) @@ ("VOICE_RECOGNITION" :> 4) @@ ("INBAND" :> 8)
    @@ ("PHONE_VTAG" :> 16) @@ ("WIDE_BAND" :> 32) @@ ("CODEC_NEG" :> 512)
Decoded == brsf_in >= 0
HasFeature(k) == k \in DOMAIN brsf_out.v

\* The six features the decoder knows follow their bits.
KnownFeaturesFollowBits ==
    Decoded => \A k \in DOMAIN brsf_out.v : brsf_out.v[k] = Bit(brsf_in, FeatureMask[k])
CodecBitSeen == Decoded /\ Bit(brsf_in, 512) /\ ~HasFeature("CODEC_NEG")

\* C31: the decoded features hold one boolean for each of the seven features,
\* true exactly when the feature's bit is set in the bitmap.
C31_FeaturesFollowBits ==
    Decoded => \A k \in DOMAIN FeatureMask :
                  HasFeature(k) /\ brsf_out.v[k] = Bit(brsf_in, FeatureMask[k])

(***************************************************************************)
(* ThreadSafeMemoryBuffer shared by a producer thread that calls append    *)
(* and a consumer thread that tests length and then calls get, as          *)
(* _socket_pump_proc, _data_required and the pump worker do.  One step is  *)
(* one statement; "with self._lock" is an acquire and a release.           *)
(***************************************************************************)
otherThanBuf == <<coreVars, csmVars, mediaVars, pumpVars, sinkVars, sessVars, pbVars, adVars,
                  decVars>>

AppendSizes == {1, 2}
GetSizes == {1, 2}

\* A variant of the lock that lets every thread in.
lock_free_always(holder) == TRUE
\* with self._lock: the lock can be taken when nobody holds it.
lock_free(holder) == holder = "none"

\* append(data) is called with the next len(data) bytes.
ProdCall(n) ==
    /\ tb_prod.pc = "idle"
    /\ tb_appended + n <= MaxAppended
    /\ tb_prod' = [pc |-> "acquire", data |-> [k \in 1..n |-> tb_appended + k], tmp |-> <<>>]
    /\ UNCHANGED <<tb_buffer, tb_lock, tb_cons, tb_appended, tb_got, otherThanBuf>>

ProdAcquire ==
    /\ tb_prod.pc = "acquire" /\ lock_free(tb_lock)
    /\ tb_lock' = "producer"
    /\ tb_prod' = [tb_prod EXCEPT !.pc = "load"]
    /\ UNCHANGED <<tb_buffer, tb_cons, tb_appended, tb_got, otherThanBuf>>

\* self._buffer += data: the attribute is read, ...
ProdLoad ==
    /\ tb_prod.pc = "load"
    /\ tb_prod' = [tb_prod EXCEPT !.pc = "store", !.tmp = tb_buffer]
    /\ UNCHANGED <<tb_buffer, tb_lock, tb_cons, tb_appended, tb_got, otherThanBuf>>

\* ... and the sum is assigned to it.
ProdStore ==
    /\ tb_prod.pc = "store"
    /\ tb_buffer' = tb_prod.tmp \o tb_prod.data
    /\ tb_appended' = tb_appended + Len(tb_prod.data)
    /\ tb_prod' = [tb_prod EXCEPT !.pc = "release"]
    /\ UNCHANGED <<tb_lock, tb_cons, tb_got, otherThanBuf>>

ProdRelease ==
    /\ tb_prod.pc = "release"
    /\ tb_lock' = "none"
    /\ tb_prod' = [tb_prod EXCEPT !.pc = "idle"]
    /\ UNCHANGED <<tb_buffer, tb_cons, tb_appended, tb_got, otherThanBuf>>

\* The consumer reads the length property.
ConsLength ==
    /\ tb_cons.pc = "idle"
    /\ tb_cons' = [tb_cons EXCEPT !.pc = "len_acquire", !.n = 0, !.data = <<>>]
    /\ UNCHANGED <<tb_buffer, tb_lock, tb_prod, tb_appended, tb_got, otherThanBuf>>

ConsLenAcquire ==
    /\ tb_cons.pc = "len_acquire" /\ lock_free(tb_lock)
    /\ tb_lock' = "consumer"
    /\ tb_cons' = [tb_cons EXCEPT !.pc = "len_read"]
    /\ UNCHANGED <<tb_buffer, tb_prod, tb_appended, tb_got, otherThanBuf>>

ConsLenRead ==
    /\ tb_cons.pc = "len_read"
    /\ tb_cons' = [tb_cons EXCEPT !.pc = "len_release", !.seen = Len(tb_buffer)]
    /\ UNCHANGED <<tb_buffer, tb_lock, tb_prod, tb_appended, tb_got, otherThanBuf>>

ConsLenRelease ==
    /\ tb_cons.pc = "len_release"
    /\ tb_lock' = "none"
    /\ tb_cons' = [tb_cons EXCEPT !.pc = "decide"]
    /\ UNCHANGED <<tb_buffer, tb_prod, tb_appended, tb_got, otherThanBuf>>

\* if self._buffer.length < n: wait and test again; else get(n).
ConsDecide(n) ==
    /\ tb_cons.pc = "decide"
    /\ tb_cons' = IF tb_cons.seen < n THEN [tb_cons EXCEPT !.pc = "idle"]
                  ELSE [tb_cons EXCEPT !.pc = "get_acquire", !.n = n]
    /\ UNCHANGED <<tb_buffer, tb_lock, tb_prod, tb_appended, tb_got, otherThanBuf>>

ConsGetAcquire ==
    /\ tb_cons.pc = "get_acquire" /\ lock_free(tb_lock)
    /\ tb_lock' = "consumer"
    /\ tb_cons' = [tb_cons EXCEPT !.pc = "get_slice"]
    /\ UNCHANGED <<tb_buffer, tb_prod, tb_appended, tb_got, otherThanBuf>>

\* data = self._buffer[0:num_bytes]
ConsGetSlice ==
    /\ tb_cons.pc = "get_slice"
    /\ tb_cons' = [tb_cons EXCEPT !.pc = "get_store",
                                  !.data = buffer_get(tb_buffer, tb_cons.n).data]
    /\ UNCHANGED <<tb_buffer, tb_lock, tb_prod, tb_appended, tb_got, otherThanBuf>>

\* self._buffer = self._buffer[num_bytes:]
ConsGetStore ==
    /\ tb_cons.pc = "get_store"
    /\ tb_buffer' = buffer_get(tb_buffer, tb_cons.n).rest
    /\ tb_got' = tb_got \o tb_cons.data
    /\ tb_cons' = [tb_cons EXCEPT !.pc = "get_release"]
    /\ UNCHANGED <<tb_lock, tb_prod, tb_appended, otherThanBuf>>

\* The lock is released and get returns data.
ConsGetRelease ==
    /\ tb_cons.pc = "get_release"
    /\ tb_lock' = "none"
    /\ tb_cons' = [tb_cons EXCEPT !.pc = "idle"]
    /\ UNCHANGED <<tb_buffer, tb_prod, tb_appended, tb_got, otherThanBuf>>

ProdCalls == \E n \in AppendSizes : ProdCall(n)
ConsDecides == \E n \in GetSizes : ConsDecide(n)

BufNext ==
    \/ ProdCalls
    \/ ProdAcquire
    \/ ProdLoad
    \/ ProdStore
    \/ ProdRelease
    \/ ConsLength
    \/ ConsLenAcquire
    \/ ConsLenRead
    \/ ConsLenRelease
    \/ ConsDecides
    \/ ConsGetAcquire
    \/ ConsGetSlice
    \/ ConsGetStore
    \/ ConsGetRelease

InitBuf == ChanInit /\ PhoneIdle /\ ReadIdle /\ AuxIdle
SpecBuf == InitBuf /\ [][BufNext]_vars

AllAppended == [i \in 1..tb_appended |-> i]
GetReturned == tb_cons.pc = "idle" /\ tb_cons.n > 0

\* C36: the bytes get has returned followed by the bytes still buffered are
\* the appended bytes in the order appended, and a get(n) called after the
\* consumer saw length >= n returns exactly n bytes.
C36_BufferIsFifo ==
    /\ tb_got \o tb_buffer = AllAppended
    /\ GetReturned => Len(tb_cons.data) = tb_cons.n

C36_Witness ==
    /\ GetReturned /\ tb_cons.n = 2 /\ tb_got = <<1, 2, 3>>
    /\ tb_prod.pc = "store" /\ tb_lock = "producer"

====
